---- MODULE Spec2Model ----
(***************************************************************************)
(* A model of the notation graph (mung/graph.py), of the onset propagation *)
(* and tie resolution (mung2midi/inference/onsets_inference.py) and of the *)
(* pitch state (mung2midi/inference/pitch_inference.py).                   *)
(***************************************************************************)
EXTENDS Integers, Sequences, FiniteSets, TLC

\* ------------------------------------------------------------------ bounds
\* Number of Node objects handed to NotationGraph(nodes); ids are 1..NumNodes.
NumNodes == 3
\* add_edge is called on a graph that holds fewer than MaxLinks edges
\* (attachment plus precedence), add_precedence_edge on one that holds fewer
\* than MaxPrecLinks.
MaxLinks == 2
MaxPrecLinks == 3

\* Number of precedence nodes of the score handed to onsets().
NumPrecedenceNodes == 3
\* Number of precedence nodes of the scores with unit durations, on which a
\* node can wait more than once for its predecessors.
NumDeepNodes == 4

\* Number of noteheads and number of ties of the score handed to
\* process_ties(); the noteheads have the ids 1..NumTieNotes, the ties the ids
\* after them.
NumTieNotes == 3
NumTies == 2

\* pitch(delta) is asked for the staffline deltas -MaxDelta..MaxDelta.
MaxDelta == 7
\* set_inline_accidental is called on a map that holds fewer than MaxInline
\* accidentals.
MaxInline == 1

\* Number of symbols (clefs, key signatures, measure separators, noteheads) of
\* the staff handed to process_staff: 1..MaxSymbols.
MaxSymbols == 3

\* A symbol whose duration is asked for has up to MaxStems stems, MaxFlags
\* flags and beams and MaxDots augmentation dots.
MaxStems == 2
MaxFlags == 2
MaxDots == 2
\* the largest number of children of a time signature
MaxMembers == 3
\* the largest number of edges of a graph whose closures are asked for, and
\* the number of queue entries ancestors() is followed for
MaxEdges == 3
MaxVisits == 8
MaxQueue == 10
MaxTies == 2
MaxStaffObjects == 11
MaxSystems == 3
MaxStaffs == 2
MaxRow == 8
MaxContained == 2
MaxAttachments == 1
MaxGroups == 3
MaxLegerLines == 2

NodeIds == 1..NumNodes

\* The durations (in beats) the precedence nodes may carry.
DurationValues == {0, 1, 2}

\* PrecedenceGraphNode.onset is None until the walk resolves it
None == -1

\* The class names used for the vertices of the graph specifications.
GraphClasses == {"noteheadFull", "stem"}

VARIABLES
    \* NotationGraph: the keys of __id_to_node_mapping (= the ids of __nodes)
    vertices,
    \* Node.inlinks / Node.outlinks, by node id (ordered lists of ids)
    inlinks, outlinks,
    \* Node.data['precedence_inlinks'] / Node.data['precedence_outlinks'];
    \* a missing key is the empty list (it is read as such at every use:
    \* graph.py 431-441, 449-455, 462-467, onsets_inference.py 426-431)
    precedence_inlinks, precedence_outlinks,
    \* Node.class_name, by node id
    class_name,
    \* the last operation called and whether it raised
    call,
    \* BaseOnsetsInferenceStrategy.permissive_desynchronization
    permissive_desynchronization,
    \* PrecedenceGraphNode.duration, by node id
    duration,
    \* the source nodes _infer_precedence_from_annotations returns, in order
    source_nodes,
    \* the locals of onsets(): the queue (never popped), its start index, the
    \* result table (id -> onset) and the keys of delayed_prec_nodes
    queue, qstart, onsets, delayed_prec_nodes,
    \* PrecedenceGraphNode.onset and Node.data['onset_beats'], by node id
    p_onset, onset_beats,
    \* where onsets() is: "start", "loop", "returned" or "raised"
    pc,
    \* Node.left, by node id
    node_left,
    \* the durations argument of process_ties (its onsets argument is onsets)
    durations,
    \* what process_ties returned, and whether it has: "start", "returned" or
    \* "raised"
    new_durations, new_onsets, ties_pc,
    \* the attributes of PitchInferenceEngineState; current_clef holds the
    \* class name of the clef node, the two accidental maps are dicts
    base_pitch, base_pitch_step, base_pitch_octave, current_clef,
    current_delta_steps, current_clef_delta_shift, key_accidentals,
    inline_accidentals,
    \* the argument and the value of the last pitch(delta) call
    pitch_delta, pitch_value,
    \* PitchInferenceStrategy.permissive
    permissive,
    \* process_staff: the sorted queue of the staff's symbols, the index of
    \* the symbol the loop is at, and where the call is: "idle", "loop",
    \* "returned" or "raised"
    staff_queue, sweep_pos, sweep_pc,
    \* PitchInferenceEngine.pitches and pitch_names, by notehead id
    pitches, pitch_names,
    \* BaseOnsetsInferenceStrategy.permissive
    strategy_permissive,
    \* the symbol whose duration is asked for, the ignore_modifiers argument,
    \* what _compute_duration_modifier returned and what beats returned
    symbol, ignore_modifiers, duration_modifier, beat,
    \* the children of the time signature interpret_time_signature is called
    \* on (in the order of its outlinks), the threshold argument (a fraction,
    \* or <<>> for the None it is when left out) and what the call returned
    time_signature, fractional_vertical_iou_threshold, measure_beats,
    \* the argument of the last call of a function that only reads, and what
    \* it returned
    argument, returned

graphVars == <<vertices, inlinks, outlinks, precedence_inlinks,
               precedence_outlinks, class_name, call>>

onsetVars == <<permissive_desynchronization, duration, source_nodes, queue,
               qstart, onsets, delayed_prec_nodes, p_onset, onset_beats, pc>>

tieVars == <<node_left, durations, new_durations, new_onsets, ties_pc>>

pitchVars == <<base_pitch, base_pitch_step, base_pitch_octave, current_clef,
               current_delta_steps, current_clef_delta_shift, key_accidentals,
               inline_accidentals, pitch_delta, pitch_value>>

sweepVars == <<permissive, staff_queue, sweep_pos, sweep_pc, pitches, pitch_names>>

\* the variables of the engines modelled after the pitch state
beatsVars == <<strategy_permissive, symbol, ignore_modifiers, duration_modifier, beat>>

timeSigVars == <<time_signature, fractional_vertical_iou_threshold, measure_beats>>

callVars == <<argument, returned>>

laterVars == <<sweepVars, beatsVars, timeSigVars, callVars>>

vars == <<graphVars, onsetVars, tieVars, pitchVars, laterVars>>

\* ------------------------------------------------------------ python lists
\* x in list
In(x, list) == \E i \in DOMAIN list : list[i] = x

\* list.remove(x): drops the first occurrence of x (the callers test x in list)
RECURSIVE ListRemove(_, _)
ListRemove(list, x) ==
    IF list = <<>> THEN <<>>
    ELSE IF Head(list) = x THEN Tail(list)
    ELSE <<Head(list)>> \o ListRemove(Tail(list), x)

\* the ids of a list, as a set
Ids(list) == {list[i] : i \in DOMAIN list}

\* a set of ids as a list in the order of the ids
RECURSIVE Ascending(_)
Ascending(S) ==
    IF S = {} THEN <<>>
    ELSE LET m == CHOOSE x \in S : \A y \in S : x <= y
         IN  <<m>> \o Ascending(S \ {m})

\* ------------------------------------------------------------ NotationGraph
\* The graph as a value: what the operations below read and return. `raised`
\* is set when the operation ended by raising; a raised state is passed
\* through unchanged by the operations that follow it in the same call.
GraphState ==
    [vertices |-> vertices, inlinks |-> inlinks, outlinks |-> outlinks,
     precedence_inlinks |-> precedence_inlinks,
     precedence_outlinks |-> precedence_outlinks, raised |-> FALSE]

Raise(st) == [st EXCEPT !.raised = TRUE]

\* A slip of remove_edge: the reciprocal inlink is left in place.
remove_edge_OutlinkOnly(st, from_id, to_id, suppress) ==
    IF st.raised THEN st
    ELSE IF from_id \notin st.vertices \/ to_id \notin st.vertices THEN Raise(st)
    ELSE IF ~In(to_id, st.outlinks[from_id]) THEN (IF suppress THEN st ELSE Raise(st))
    ELSE [st EXCEPT !.outlinks[from_id] = ListRemove(@, to_id)]

remove_edge(st, from_id, to_id, suppress) ==
    IF st.raised THEN st
    ELSE IF from_id \notin st.vertices THEN Raise(st)
    ELSE IF to_id \notin st.vertices THEN Raise(st)
    ELSE IF suppress /\ ~In(to_id, st.outlinks[from_id]) THEN st
    ELSE IF suppress /\ ~In(from_id, st.inlinks[to_id]) THEN st
    ELSE IF ~In(to_id, st.outlinks[from_id]) THEN Raise(st)
    ELSE LET s1 == [st EXCEPT !.outlinks[from_id] = ListRemove(@, to_id)]
         IN  IF ~In(from_id, s1.inlinks[to_id]) THEN Raise(s1)
             ELSE [s1 EXCEPT !.inlinks[to_id] = ListRemove(@, from_id)]

\* for inlink in copy.deepcopy(node.inlinks): self.remove_edge(inlink, node_id)
RECURSIVE RemoveInlinkEdges(_, _, _)
RemoveInlinkEdges(st, node_id, copy) ==
    IF copy = <<>> \/ st.raised THEN st
    ELSE RemoveInlinkEdges(remove_edge(st, Head(copy), node_id, FALSE),
                           node_id, Tail(copy))

\* for outlink in copy.deepcopy(node.outlinks): self.remove_edge(node_id, outlink)
RECURSIVE RemoveOutlinkEdges(_, _, _)
RemoveOutlinkEdges(st, node_id, copy) ==
    IF copy = <<>> \/ st.raised THEN st
    ELSE RemoveOutlinkEdges(remove_edge(st, node_id, Head(copy), FALSE),
                            node_id, Tail(copy))

remove_edges_for_vertex(st, node_id) ==
    IF st.raised THEN st
    ELSE IF node_id \notin st.vertices THEN Raise(st)
    ELSE LET s1 == RemoveInlinkEdges(st, node_id, st.inlinks[node_id])
         IN  IF s1.raised THEN s1
             ELSE RemoveOutlinkEdges(s1, node_id, s1.outlinks[node_id])

\* A slip of remove_vertex: the edges of the vertex are left in place.
remove_vertex_Bare(st, node_id) ==
    IF node_id \notin st.vertices THEN Raise(st)
    ELSE [st EXCEPT !.vertices = @ \ {node_id}]

remove_vertex(st, node_id) ==
    LET s1 == remove_edges_for_vertex(st, node_id)
    IN  IF s1.raised THEN s1
        ELSE [s1 EXCEPT !.vertices = @ \ {node_id}]

\* for node_id in to_remove: self.remove_vertex(node_id); __nodes is kept in
\* the order of the ids
RECURSIVE RemoveVertices(_, _, _)
RemoveVertices(st, to_remove, node_id) ==
    IF node_id > NumNodes \/ st.raised THEN st
    ELSE IF node_id \in to_remove
         THEN RemoveVertices(remove_vertex(st, node_id), to_remove, node_id + 1)
         ELSE RemoveVertices(st, to_remove, node_id + 1)

remove_classes(st, class_names) ==
    LET to_remove == {n \in st.vertices : class_name[n] \in class_names}
    IN  RemoveVertices(st, to_remove, 1)

\* A slip of has_edge: only the out-list is looked at.
has_edge_OutlinkOnly(st, from_id, to_id) ==
    IF from_id \notin st.vertices \/ to_id \notin st.vertices
    THEN [raised |-> TRUE, value |-> FALSE]
    ELSE [raised |-> FALSE, value |-> In(to_id, st.outlinks[from_id])]

\* has_edge: what it returns (in value) unless it raises
has_edge(st, from_id, to_id) ==
    IF from_id \notin st.vertices \/ to_id \notin st.vertices
    THEN [raised |-> TRUE, value |-> FALSE]
    ELSE IF In(to_id, st.outlinks[from_id])
    THEN [raised |-> ~In(from_id, st.inlinks[to_id]), value |-> TRUE]
    ELSE [raised |-> In(from_id, st.inlinks[to_id]), value |-> FALSE]

\* A slip of add_edge: the edge is recorded without looking for it first.
add_edge_Again(st, from_id, to_id) ==
    IF from_id \notin st.vertices \/ to_id \notin st.vertices THEN Raise(st)
    ELSE [st EXCEPT !.outlinks[from_id] = Append(@, to_id),
                    !.inlinks[to_id] = Append(@, from_id)]

add_edge(st, from_id, to_id) ==
    IF from_id \notin st.vertices THEN Raise(st)
    ELSE IF to_id \notin st.vertices THEN Raise(st)
    ELSE IF In(to_id, st.outlinks[from_id])
         THEN (IF In(from_id, st.inlinks[to_id]) THEN st ELSE Raise(st))
    ELSE IF In(from_id, st.inlinks[to_id]) THEN Raise(st)
    ELSE [st EXCEPT !.outlinks[from_id] = Append(@, to_id),
                    !.inlinks[to_id] = Append(@, from_id)]

\* Node.precedence_outlinks / Node.precedence_inlinks: the list under the key
precedence_outlinks_of(st, node_id) == st.precedence_outlinks[node_id]
precedence_inlinks_of(st, node_id) == st.precedence_inlinks[node_id]

\* Node.add_precedence_outlinks(id) / Node.add_precedence_inlinks(id)
add_precedence_outlinks(st, node_id, to_id) ==
    [st EXCEPT !.precedence_outlinks[node_id] = Append(@, to_id)]
add_precedence_inlinks(st, node_id, from_id) ==
    [st EXCEPT !.precedence_inlinks[node_id] = Append(@, from_id)]

add_precedence_edge(st, from_id, to_id) ==
    IF from_id \notin st.vertices THEN Raise(st)
    ELSE IF to_id \notin st.vertices THEN Raise(st)
    ELSE IF In(to_id, precedence_outlinks_of(st, from_id))
         THEN (IF In(from_id, precedence_inlinks_of(st, to_id)) THEN st ELSE Raise(st))
    ELSE IF In(from_id, precedence_inlinks_of(st, to_id)) THEN Raise(st)
    ELSE add_precedence_inlinks(add_precedence_outlinks(st, from_id, to_id),
                                to_id, from_id)

remove_precedence_edge(st, from_id, to_id, suppress) ==
    IF from_id \notin st.vertices THEN Raise(st)
    ELSE IF to_id \notin st.vertices THEN Raise(st)
    ELSE IF suppress /\ ~In(to_id, precedence_outlinks_of(st, from_id)) THEN st
    ELSE IF suppress /\ ~In(from_id, precedence_inlinks_of(st, to_id)) THEN st
    ELSE IF ~In(to_id, precedence_outlinks_of(st, from_id)) THEN Raise(st)
    ELSE LET s1 == [st EXCEPT !.precedence_outlinks[from_id] = ListRemove(@, to_id)]
         IN  IF ~In(from_id, s1.precedence_inlinks[to_id]) THEN Raise(s1)
             ELSE [s1 EXCEPT !.precedence_inlinks[to_id] = ListRemove(@, from_id)]

\* remove_from_precedence, "Remove inlinks": for predecessor_id in predecessors
RECURSIVE RemovePrecedenceInlinks(_, _, _)
RemovePrecedenceInlinks(st, node_id, predecessors) ==
    IF predecessors = <<>> \/ st.raised THEN st
    ELSE LET predecessor_id == Head(predecessors)
         IN  IF predecessor_id \notin st.vertices THEN Raise(st)
             ELSE IF ~In(node_id, st.precedence_outlinks[predecessor_id]) THEN Raise(st)
             ELSE LET s1 == [st EXCEPT !.precedence_outlinks[predecessor_id] =
                                            ListRemove(@, node_id)]
                  IN  IF ~In(predecessor_id, s1.precedence_inlinks[node_id])
                      THEN Raise(s1)
                      ELSE RemovePrecedenceInlinks(
                               [s1 EXCEPT !.precedence_inlinks[node_id] =
                                              ListRemove(@, predecessor_id)],
                               node_id, Tail(predecessors))

\* remove_from_precedence, "Remove outlinks": for descentant_id in descendants
RECURSIVE RemovePrecedenceOutlinks(_, _, _)
RemovePrecedenceOutlinks(st, node_id, descendants) ==
    IF descendants = <<>> \/ st.raised THEN st
    ELSE LET descentant_id == Head(descendants)
         IN  IF descentant_id \notin st.vertices THEN Raise(st)
             ELSE IF ~In(node_id, st.precedence_inlinks[descentant_id]) THEN Raise(st)
             ELSE LET s1 == [st EXCEPT !.precedence_inlinks[descentant_id] =
                                            ListRemove(@, node_id)]
                  IN  IF ~In(descentant_id, s1.precedence_outlinks[node_id])
                      THEN Raise(s1)
                      ELSE RemovePrecedenceOutlinks(
                               [s1 EXCEPT !.precedence_outlinks[node_id] =
                                              ListRemove(@, descentant_id)],
                               node_id, Tail(descendants))

\* A slip of the bridging step: only the predecessor's outlink is recorded.
BridgeOne_OutlinkOnly(st, predecessor_id, descentant_id) ==
    IF ~In(descentant_id, st.precedence_outlinks[predecessor_id])
    THEN [st EXCEPT !.precedence_outlinks[predecessor_id] = Append(@, descentant_id)]
    ELSE st

\* one step of the inner loop of "Bridge removed element"
BridgeOne(st, predecessor_id, descentant_id) ==
    LET s1 == IF ~In(descentant_id, st.precedence_outlinks[predecessor_id])
              THEN [st EXCEPT !.precedence_outlinks[predecessor_id] =
                                  Append(@, descentant_id)]
              ELSE st
    IN  IF ~In(predecessor_id, s1.precedence_inlinks[descentant_id])
        THEN [s1 EXCEPT !.precedence_inlinks[descentant_id] =
                            Append(@, predecessor_id)]
        ELSE s1

RECURSIVE BridgeDescendants(_, _, _)
BridgeDescendants(st, predecessor_id, descendants) ==
    IF descendants = <<>> THEN st
    ELSE BridgeDescendants(BridgeOne(st, predecessor_id, Head(descendants)),
                           predecessor_id, Tail(descendants))

RECURSIVE BridgePredecessors(_, _, _)
BridgePredecessors(st, predecessors, descendants) ==
    IF predecessors = <<>> THEN st
    ELSE BridgePredecessors(BridgeDescendants(st, Head(predecessors), descendants),
                            Tail(predecessors), descendants)

\* A slip of remove_from_precedence: the edges of the node are removed and
\* its predecessors are not linked to its descendants.
remove_from_precedence_Unbridged(st, node_id) ==
    IF node_id \notin st.vertices THEN Raise(st)
    ELSE LET predecessors == st.precedence_inlinks[node_id]
             descendants == st.precedence_outlinks[node_id]
         IN  IF predecessors = <<>> /\ descendants = <<>> THEN st
             ELSE RemovePrecedenceOutlinks(
                      RemovePrecedenceInlinks(st, node_id, predecessors),
                      node_id, descendants)

remove_from_precedence(st, node_id) ==
    IF node_id \notin st.vertices THEN Raise(st)
    ELSE LET predecessors == st.precedence_inlinks[node_id]
             descendants == st.precedence_outlinks[node_id]
         IN  IF predecessors = <<>> /\ descendants = <<>> THEN st
             ELSE LET s1 == RemovePrecedenceInlinks(st, node_id, predecessors)
                      s2 == RemovePrecedenceOutlinks(s1, node_id, descendants)
                  IN  IF s2.raised THEN s2
                      ELSE BridgePredecessors(s2, predecessors, descendants)

\* ------------------------------------------------- the graph specifications
NoLinks == [n \in NodeIds |-> <<>>]

\* the onset engine has not been called
OnsetsIdleBut ==
    /\ permissive_desynchronization = TRUE
    /\ duration = <<>>
    /\ source_nodes = <<>>
    /\ queue = <<>>
    /\ qstart = 0
    /\ delayed_prec_nodes = {}
    /\ p_onset = <<>>
    /\ onset_beats = <<>>
    /\ pc = "idle"

OnsetsIdle == OnsetsIdleBut /\ onsets = <<>>

\* process_ties has not been called
TiesIdle ==
    /\ node_left = <<>>
    /\ durations = <<>>
    /\ new_durations = <<>>
    /\ new_onsets = <<>>
    /\ ties_pc = "idle"

\* current_clef is None
NoClef == "None"

\* PitchInferenceEngineState(): the attributes after __init__ (lines 74-98)
PitchStateNew ==
    /\ base_pitch = None
    /\ base_pitch_step = None
    /\ base_pitch_octave = None
    /\ current_clef = NoClef
    /\ current_delta_steps = <<>>
    /\ current_clef_delta_shift = 0
    /\ key_accidentals = <<>>
    /\ inline_accidentals = <<>>
    /\ pitch_delta = None
    /\ pitch_value = None

\* process_staff has not been called
SweepIdle ==
    /\ permissive = TRUE
    /\ staff_queue = <<>>
    /\ sweep_pos = 0
    /\ sweep_pc = "idle"
    /\ pitches = <<>>
    /\ pitch_names = <<>>

\* no duration has been asked for
BeatsIdle ==
    /\ strategy_permissive = TRUE
    /\ symbol = <<>>
    /\ ignore_modifiers = FALSE
    /\ duration_modifier = <<>>
    /\ beat = <<>>

\* no time signature has been interpreted
TimeSigIdle ==
    /\ time_signature = <<>>
    /\ fractional_vertical_iou_threshold = <<>>
    /\ measure_beats = <<>>

\* no such function has been called
CallIdle ==
    /\ argument = <<>>
    /\ returned = <<>>

LaterIdle == SweepIdle /\ BeatsIdle /\ TimeSigIdle /\ CallIdle

RECURSIVE SumLen(_, _)
SumLen(lists, ids) ==
    IF ids = {} THEN 0
    ELSE LET n == CHOOSE m \in ids : TRUE
         IN  Len(lists[n]) + SumLen(lists, ids \ {n})

\* the number of edges recorded in the out-lists of a graph value
LinkCount(st) == SumLen(st.outlinks, NodeIds) + SumLen(st.precedence_outlinks, NodeIds)

Called(op, st) == [op |-> op, raised |-> st.raised]

\* the variables take the values of the graph value an operation returned
Becomes(st) ==
    /\ vertices' = st.vertices
    /\ inlinks' = st.inlinks
    /\ outlinks' = st.outlinks
    /\ precedence_inlinks' = st.precedence_inlinks
    /\ precedence_outlinks' = st.precedence_outlinks
    /\ UNCHANGED <<class_name, onsetVars, tieVars, pitchVars, laterVars>>

\* NotationGraph(nodes) over nodes that carry no edges yet: one notehead and
\* stems.
InitGraph ==
    /\ vertices = NodeIds
    /\ inlinks = NoLinks
    /\ outlinks = NoLinks
    /\ precedence_inlinks = NoLinks
    /\ precedence_outlinks = NoLinks
    /\ class_name = [n \in NodeIds |-> IF n = 1 THEN "noteheadFull" ELSE "stem"]
    /\ call = [op |-> "init", raised |-> FALSE]
    /\ OnsetsIdle
    /\ TiesIdle
    /\ PitchStateNew
    /\ LaterIdle

AddEdgeCall(from_id, to_id) ==
    LET st == add_edge(GraphState, from_id, to_id)
    IN  /\ LinkCount(st) <= MaxLinks
        /\ Becomes(st)
        /\ call' = Called("add_edge", st)

AddEdge == \E from_id \in NodeIds, to_id \in NodeIds : AddEdgeCall(from_id, to_id)

RemoveEdgeCall(from_id, to_id, suppress) ==
    LET st == remove_edge(GraphState, from_id, to_id, suppress)
    IN  /\ Becomes(st)
        /\ call' = Called("remove_edge", st)

RemoveEdge ==
    \E from_id \in NodeIds, to_id \in NodeIds, suppress \in BOOLEAN :
        RemoveEdgeCall(from_id, to_id, suppress)

RemoveEdgesForVertexCall(node_id) ==
    LET st == remove_edges_for_vertex(GraphState, node_id)
    IN  /\ Becomes(st)
        /\ call' = Called("remove_edges_for_vertex", st)

RemoveEdgesForVertex == \E node_id \in NodeIds : RemoveEdgesForVertexCall(node_id)

RemoveVertexCall(node_id) ==
    LET st == remove_vertex(GraphState, node_id)
    IN  /\ Becomes(st)
        /\ call' = Called("remove_vertex", st)

RemoveVertex == \E node_id \in NodeIds : RemoveVertexCall(node_id)

RemoveClassesCall(class_names) ==
    LET st == remove_classes(GraphState, class_names)
    IN  /\ Becomes(st)
        /\ call' = Called("remove_classes", st)

RemoveClasses == \E class_names \in SUBSET GraphClasses : RemoveClassesCall(class_names)

AddPrecedenceEdgeCall(from_id, to_id) ==
    LET st == add_precedence_edge(GraphState, from_id, to_id)
    IN  /\ LinkCount(st) <= MaxPrecLinks
        /\ Becomes(st)
        /\ call' = Called("add_precedence_edge", st)

AddPrecedenceEdge ==
    \E from_id \in NodeIds, to_id \in NodeIds : AddPrecedenceEdgeCall(from_id, to_id)

RemovePrecedenceEdgeCall(from_id, to_id, suppress) ==
    LET st == remove_precedence_edge(GraphState, from_id, to_id, suppress)
    IN  /\ Becomes(st)
        /\ call' = Called("remove_precedence_edge", st)

RemovePrecedenceEdge ==
    \E from_id \in NodeIds, to_id \in NodeIds, suppress \in BOOLEAN :
        RemovePrecedenceEdgeCall(from_id, to_id, suppress)

RemoveFromPrecedenceCall(node_id) ==
    LET st == remove_from_precedence(GraphState, node_id)
    IN  /\ Becomes(st)
        /\ call' = Called("remove_from_precedence", st)

RemoveFromPrecedence == \E node_id \in NodeIds : RemoveFromPrecedenceCall(node_id)

\* the attachment relation and the vertex operations
NextAttach ==
    \/ AddEdge
    \/ RemoveEdge
    \/ RemoveEdgesForVertex
    \/ RemoveVertex
    \/ RemoveClasses

SpecAttach == InitGraph /\ [][NextAttach]_vars

\* the precedence relation
NextPrec ==
    \/ AddPrecedenceEdge
    \/ RemovePrecedenceEdge
    \/ RemoveFromPrecedence

SpecPrec == InitGraph /\ [][NextPrec]_vars

\* every vertex and edge operation of NotationGraph
NextGraph ==
    \/ NextAttach
    \/ NextPrec

SpecGraph == InitGraph /\ [][NextGraph]_vars

\* --------------------------------------------------- remove_contained_nodes
RECURSIVE RemoveAllFromPrecedence(_, _)
RemoveAllFromPrecedence(st, contained) ==
    IF contained = <<>> \/ st.raised THEN st
    ELSE RemoveAllFromPrecedence(remove_from_precedence(st, Head(contained)),
                                 Tail(contained))

RECURSIVE RemoveAllVertices(_, _)
RemoveAllVertices(st, contained) ==
    IF contained = <<>> \/ st.raised THEN st
    ELSE RemoveAllVertices(remove_vertex(st, Head(contained)), Tail(contained))

\* A slip of remove_contained_nodes: the contained nodes are not taken out of
\* the precedence relation before they are removed.
remove_contained_nodes_VerticesOnly(st, contained) == RemoveAllVertices(st, contained)

\* remove_contained_nodes(nodes, contained), graph.py 1117-1136: the graph
\* over the copies of the nodes, after the two loops
remove_contained_nodes(st, contained) ==
    RemoveAllVertices(RemoveAllFromPrecedence(st, contained), contained)

\* the edges a relation of the specification is made of: from a node to a
\* node of larger id
ForwardEdges == {e \in NodeIds \X NodeIds : e[1] < e[2]}

\* the lists of the nodes for the edges E, in the order of the ids
EdgeInlinks(E) == [n \in NodeIds |-> Ascending({e[1] : e \in {x \in E : x[2] = n}})]
EdgeOutlinks(E) == [n \in NodeIds |-> Ascending({e[2] : e \in {x \in E : x[1] = n}})]

\* the precedence relations of the specification: edges from left to right,
\* or one loop, or one cycle of two nodes
PrecedenceRelations ==
    (SUBSET ForwardEdges)
        \cup {{<<n, n>>} : n \in NodeIds}
        \cup {{e, <<e[2], e[1]>>} : e \in ForwardEdges}

\* the lists of distinct nodes `contained` may be
ContainedLists ==
    UNION {{c \in [1..k -> NodeIds] : \A i, j \in 1..k : c[i] = c[j] => i = j} :
           k \in 0..MaxContained}

\* nodes with reciprocal attachment and precedence lists, given to
\* remove_contained_nodes
InitContained ==
    /\ vertices = NodeIds
    /\ \E attachments \in {A \in SUBSET ForwardEdges : Cardinality(A) <= MaxAttachments} :
          /\ inlinks = EdgeInlinks(attachments)
          /\ outlinks = EdgeOutlinks(attachments)
    /\ \E precedence \in PrecedenceRelations :
          /\ precedence_inlinks = EdgeInlinks(precedence)
          /\ precedence_outlinks = EdgeOutlinks(precedence)
    /\ class_name = [n \in NodeIds |-> IF n = 1 THEN "noteheadFull" ELSE "stem"]
    /\ call = [op |-> "init", raised |-> FALSE]
    /\ OnsetsIdle
    /\ TiesIdle
    /\ PitchStateNew
    /\ LaterIdle

\* the call works on copies: the nodes given keep their lists, the nodes
\* returned are in `returned`
RemoveContainedNodesCall(contained) ==
    /\ call.op = "init"
    /\ LET st == remove_contained_nodes(GraphState, contained)
       IN  /\ call' = [op |-> "remove_contained_nodes", raised |-> st.raised]
           /\ returned' = IF st.raised THEN <<>> ELSE <<st>>
    /\ argument' = contained
    /\ UNCHANGED <<vertices, inlinks, outlinks, precedence_inlinks,
                   precedence_outlinks, class_name, onsetVars, tieVars, pitchVars,
                   sweepVars, beatsVars, timeSigVars>>

RemoveContainedNodes == \E contained \in ContainedLists : RemoveContainedNodesCall(contained)

NextContained == RemoveContainedNodes

SpecContained == InitContained /\ [][NextContained]_vars

\* A graph over nodes whose link lists were filled in by hand, as
\* NotationGraph(nodes) takes them: up to MaxLinks entries of the lists of one
\* relation, each the out-list entry (from, to, "out") or the in-list entry
\* (from, to, "in") of an edge from -> to, so that an edge may be recorded in
\* one direction only.
HalfLinks == NodeIds \X NodeIds \X {"out", "in"}

OutlinksOf(entries) ==
    [n \in NodeIds |-> Ascending({m \in NodeIds : <<n, m, "out">> \in entries})]

InlinksOf(entries) ==
    [n \in NodeIds |-> Ascending({m \in NodeIds : <<m, n, "in">> \in entries})]

InitLinks ==
    /\ vertices = NodeIds
    /\ \E k \in 0..MaxLinks : \E chosen \in [1..k -> HalfLinks] :
           \E precedence \in BOOLEAN :
             LET entries == {chosen[i] : i \in 1..k}
             IN
               /\ outlinks = IF precedence THEN NoLinks ELSE OutlinksOf(entries)
               /\ inlinks = IF precedence THEN NoLinks ELSE InlinksOf(entries)
               /\ precedence_outlinks = IF precedence THEN OutlinksOf(entries) ELSE NoLinks
               /\ precedence_inlinks = IF precedence THEN InlinksOf(entries) ELSE NoLinks
    /\ class_name = [n \in NodeIds |-> IF n = 1 THEN "noteheadFull" ELSE "stem"]
    /\ call = [op |-> "init", raised |-> FALSE]
    /\ OnsetsIdle
    /\ TiesIdle
    /\ PitchStateNew
    /\ LaterIdle

\* has_edge changes nothing
HasEdgeCall(from_id, to_id) ==
    /\ call' = [op |-> "has_edge", raised |-> has_edge(GraphState, from_id, to_id).raised]
    /\ UNCHANGED <<vertices, inlinks, outlinks, precedence_inlinks,
                   precedence_outlinks, class_name, onsetVars, tieVars, pitchVars,
                   laterVars>>

HasEdge == \E from_id \in NodeIds, to_id \in NodeIds : HasEdgeCall(from_id, to_id)

\* one call of an edge operation on that graph
NextLinks ==
    /\ call.op = "init"
    /\ \/ HasEdge
       \/ AddEdge
       \/ RemoveEdge
       \/ AddPrecedenceEdge
       \/ RemovePrecedenceEdge

SpecLinks == InitLinks /\ [][NextLinks]_vars

\* ------------------------------------------------ OnsetsInferenceEngine
\* every ordering of a set of ids as a list
RECURSIVE Perms(_)
Perms(S) ==
    IF S = {} THEN {<<>>}
    ELSE UNION {{<<x>> \o rest : rest \in Perms(S \ {x})} : x \in S}

Min(list) == CHOOSE x \in Ids(list) : \A y \in Ids(list) : x <= y
Max(list) == CHOOSE x \in Ids(list) : \A y \in Ids(list) : x >= y

\* d[k] = v on a dict
Put(d, k, v) == (k :> v) @@ d

\* A PrecedenceGraphNode as a dict key, and the int q.obj.id as a dict key: the
\* class defines neither __eq__ nor __hash__, so a node equals no int.
PrecedenceGraphNode(n) == <<"PrecedenceGraphNode", n>>
ObjId(n) == <<"int", n>>

\* The locals and the node attributes onsets() works on, as a value.
OnsetsState ==
    [queue |-> queue, qstart |-> qstart, onsets |-> onsets,
     delayed_prec_nodes |-> delayed_prec_nodes, p_onset |-> p_onset,
     onset_beats |-> onset_beats, pc |-> pc]

\* for post_q in q.outlinks: if post_q not in queue: queue.append(post_q)
RECURSIVE AppendOutlinks(_, _)
AppendOutlinks(q_list, q_outlinks) ==
    IF q_outlinks = <<>> THEN q_list
    ELSE AppendOutlinks(IF In(Head(q_outlinks), q_list) THEN q_list
                        ELSE Append(q_list, Head(q_outlinks)),
                        Tail(q_outlinks))

\* A slip of the delay test: the node is looked up by its id.
already_delayed_ById(q, delayed) == ObjId(q) \in delayed

\* q in delayed_prec_nodes (line 1323); the keys were stored as q.obj.id
already_delayed(q, delayed) == PrecedenceGraphNode(q) \in delayed

\* A slip of the proposals: the node's own duration is added.
onset_proposals_OwnDuration(os, q) ==
    [i \in DOMAIN precedence_inlinks[q] |->
        os.p_onset[precedence_inlinks[q][i]] + duration[q]]

\* [o + d for o, d in zip(prec_onsets, prec_durations)]
onset_proposals(os, q) ==
    [i \in DOMAIN precedence_inlinks[q] |->
        os.p_onset[precedence_inlinks[q][i]] + duration[precedence_inlinks[q][i]]]

\* A slip of the permissive branch: the first proposal is taken.
desynchronized_onset_First(os, proposals) == [os EXCEPT !.p_onset = proposals]

\* A slip of the policy test: the maximum is taken under either policy.
desynchronized_onset_AlwaysPermissive(os, proposals) ==
    [os EXCEPT !.p_onset = <<Max(proposals)>>]

\* lines 1339-1347: the proposals disagree; the onset chosen is left in
\* p_onset[1] of the value returned, or the call raises
desynchronized_onset(os, proposals) ==
    IF permissive_desynchronization
    THEN [os EXCEPT !.p_onset = <<Max(proposals)>>]
    ELSE [os EXCEPT !.pc = "raised"]

\* lines 1351-1356: q.onset = onset, and the table and the data of the symbol
assign_onset(os, q, onset) ==
    [os EXCEPT !.p_onset[q] = onset,
               !.onsets = Put(@, q, onset),
               !.onset_beats[q] = onset]

\* line 1322: queue.append(q)
delay_processing(os, q) == [os EXCEPT !.queue = Append(@, q)]

\* one iteration of the while loop of onsets(), lines 1296-1356
onsets_iteration(os) ==
    LET q == os.queue[os.qstart + 1]
        s1 == [os EXCEPT !.qstart = @ + 1,
                         !.queue = AppendOutlinks(@, precedence_outlinks[q])]
    IN  IF s1.p_onset[q] # None
        THEN IF s1.p_onset[q] > 0
             THEN [s1 EXCEPT !.pc = "returned"]
             ELSE [s1 EXCEPT !.onsets = Put(@, q, s1.p_onset[q])]
        ELSE IF \E i \in DOMAIN precedence_inlinks[q] :
                    s1.p_onset[precedence_inlinks[q][i]] = None
        THEN LET s2 == delay_processing(s1, q)
             IN  IF already_delayed(q, s2.delayed_prec_nodes)
                 THEN [s2 EXCEPT !.pc = "returned"]
                 ELSE [s2 EXCEPT !.delayed_prec_nodes = @ \cup {ObjId(q)}]
        ELSE LET proposals == onset_proposals(s1, q)
             IN  IF proposals = <<>> THEN [s1 EXCEPT !.pc = "raised"]
                 ELSE IF Min(proposals) # Max(proposals)
                 THEN LET s3 == desynchronized_onset(s1, proposals)
                      IN  IF s3.pc = "raised" THEN s3
                          ELSE assign_onset(s1, q, s3.p_onset[1])
                 ELSE assign_onset(s1, q, proposals[1])

\* the edges a -> b with a < b
ForwardPairs(ids) == {e \in ids \X ids : e[1] < e[2]}

\* the out-lists of the nodes 1..k for the edge set E, in every order
RECURSIVE OutlinkLists(_, _)
OutlinkLists(E, k) ==
    IF k = 0 THEN {<<>>}
    ELSE {Append(f, l) : f \in OutlinkLists(E, k - 1),
                         l \in Perms({e[2] : e \in {d \in E : d[1] = k}})}

\* onsets(nodes) after _infer_precedence_from_annotations returned (line
\* 1265), single system: the precedence nodes mirror the precedence lists of
\* the symbols (lines 425-434), which are reciprocal and acyclic. The nodes
\* are numbered along the edges; the out-lists and the source nodes come in
\* any order; inlink lists are in the order of the ids (the walk reads only
\* the minimum, the maximum and, when these are equal, the first of the
\* proposals).
InitOnsetsOf(count, values) ==
    /\ vertices = 1..count
    /\ inlinks = [n \in 1..count |-> <<>>]
    /\ outlinks = [n \in 1..count |-> <<>>]
    /\ class_name = [n \in 1..count |-> "noteheadFull"]
    /\ call = [op |-> "init", raised |-> FALSE]
    /\ \E E \in SUBSET ForwardPairs(1..count) :
          /\ precedence_outlinks \in OutlinkLists(E, count)
          /\ precedence_inlinks =
                 [n \in 1..count |-> Ascending({a \in 1..count : <<a, n>> \in E})]
          /\ source_nodes \in
                 Perms({n \in 1..count : \A a \in 1..count : <<a, n>> \notin E})
    /\ duration \in [1..count -> values]
    /\ permissive_desynchronization \in BOOLEAN
    /\ queue = <<>>
    /\ qstart = 0
    /\ onsets = <<>>
    /\ delayed_prec_nodes = {}
    /\ p_onset = [n \in 1..count |-> None]
    /\ onset_beats = [n \in 1..count |-> None]
    /\ pc = "start"
    /\ TiesIdle
    /\ PitchStateNew
    /\ LaterIdle

InitOnsets == InitOnsetsOf(NumPrecedenceNodes, DurationValues)

\* scores of notes that all last one beat
InitOnsetsDeep == InitOnsetsOf(NumDeepNodes, {1})

OnsetsBecomes(os) ==
    /\ queue' = os.queue
    /\ qstart' = os.qstart
    /\ onsets' = os.onsets
    /\ delayed_prec_nodes' = os.delayed_prec_nodes
    /\ p_onset' = os.p_onset
    /\ onset_beats' = os.onset_beats
    /\ pc' = os.pc
    /\ UNCHANGED <<graphVars, permissive_desynchronization, duration, source_nodes,
                   tieVars, pitchVars, laterVars>>

\* lines 1266-1290: the source nodes get onset 0 and make up the queue
OnsetsBegin ==
    /\ pc = "start"
    /\ OnsetsBecomes([OnsetsState EXCEPT
           !.p_onset = [n \in DOMAIN p_onset |->
                           IF In(n, source_nodes) THEN 0 ELSE None],
           !.queue = source_nodes,
           !.pc = "loop"])

\* while (len(queue) - qstart) > 0: one iteration
OnsetsLoop ==
    /\ pc = "loop"
    /\ Len(queue) - qstart > 0
    /\ OnsetsBecomes(onsets_iteration(OnsetsState))

\* the queue is exhausted: return onsets
OnsetsReturn ==
    /\ pc = "loop"
    /\ Len(queue) - qstart = 0
    /\ OnsetsBecomes([OnsetsState EXCEPT !.pc = "returned"])

NextOnsets ==
    \/ OnsetsBegin
    \/ OnsetsLoop
    \/ OnsetsReturn

SpecOnsets == InitOnsets /\ [][NextOnsets]_vars

SpecOnsetsDeep == InitOnsetsDeep /\ [][NextOnsets]_vars

\* onsets(nodes) on precedence lists that may hold cycles and loops: the
\* lists are reciprocal, in the order of the ids; the source nodes are the
\* nodes without inlinks (lines 442-443), in any order. The walk is followed
\* until the queue holds more than MaxQueue entries.
InitOnsetsCyclic ==
    /\ vertices = 1..NumPrecedenceNodes
    /\ inlinks = [n \in vertices |-> <<>>]
    /\ outlinks = [n \in vertices |-> <<>>]
    /\ class_name = [n \in vertices |-> "noteheadFull"]
    /\ call = [op |-> "init", raised |-> FALSE]
    /\ \E E \in SUBSET (vertices \X vertices) :
          /\ precedence_outlinks =
                 [n \in vertices |-> Ascending({b \in vertices : <<n, b>> \in E})]
          /\ precedence_inlinks =
                 [n \in vertices |-> Ascending({a \in vertices : <<a, n>> \in E})]
          /\ source_nodes \in
                 Perms({n \in vertices : \A a \in vertices : <<a, n>> \notin E})
    /\ duration = [n \in vertices |-> 1]
    /\ permissive_desynchronization \in BOOLEAN
    /\ queue = <<>>
    /\ qstart = 0
    /\ onsets = <<>>
    /\ delayed_prec_nodes = {}
    /\ p_onset = [n \in vertices |-> None]
    /\ onset_beats = [n \in vertices |-> None]
    /\ pc = "start"
    /\ TiesIdle
    /\ PitchStateNew
    /\ LaterIdle

NextOnsetsCyclic == Len(queue) <= MaxQueue /\ NextOnsets

SpecOnsetsCyclic == InitOnsetsCyclic /\ [][NextOnsetsCyclic]_vars

\* A slip of the test of the staff counts: the first system is compared with
\* the last one only.
variable_number_of_staffs_FirstAndLast(system_lengths) ==
    system_lengths[1] # system_lengths[Len(system_lengths)]

\* len(set(_system_lengths)) > 1, lines 452-453
variable_number_of_staffs(system_lengths) == Cardinality(Ids(system_lengths)) > 1

\* _infer_precedence_from_annotations, lines 436-458, on the numbers of staffs
\* of the systems group_staffs_into_systems returned: "sources" when the
\* source nodes are returned as they are, "chains" when the staffs are to be
\* chained, "raised" when the method raises (systems[0] of no system fails)
systems_outcome(system_lengths, link_sinks_to_sources) ==
    IF Len(system_lengths) = 1 THEN "sources"
    ELSE IF ~link_sinks_to_sources THEN "sources"
    ELSE IF Len(system_lengths) = 0 THEN "raised"
    ELSE IF variable_number_of_staffs(system_lengths) THEN "raised"
    ELSE "chains"

\* onsets(nodes) on a score of up to MaxSystems systems of up to MaxStaffs
\* staffs each: argument holds the numbers of staffs of the systems and the
\* link_sinks_to_sources_at_ends_and_starts_of_systems of the strategy; the
\* precedence lists are those the inference ends with when it returns
InitOnsetsSystems ==
    /\ vertices = 1..2
    /\ inlinks = [n \in 1..2 |-> <<>>]
    /\ outlinks = [n \in 1..2 |-> <<>>]
    /\ class_name = [n \in 1..2 |-> "noteheadFull"]
    /\ call = [op |-> "init", raised |-> FALSE]
    /\ \E E \in SUBSET ForwardPairs(1..2) :
          /\ precedence_outlinks \in OutlinkLists(E, 2)
          /\ precedence_inlinks =
                 [n \in 1..2 |-> Ascending({a \in 1..2 : <<a, n>> \in E})]
          /\ source_nodes \in Perms({n \in 1..2 : \A a \in 1..2 : <<a, n>> \notin E})
    /\ duration = [n \in 1..2 |-> 1]
    /\ permissive_desynchronization \in BOOLEAN
    /\ queue = <<>>
    /\ qstart = 0
    /\ onsets = <<>>
    /\ delayed_prec_nodes = {}
    /\ p_onset = [n \in 1..2 |-> None]
    /\ onset_beats = [n \in 1..2 |-> None]
    /\ pc = "start"
    /\ TiesIdle
    /\ PitchStateNew
    /\ SweepIdle
    /\ BeatsIdle
    /\ TimeSigIdle
    /\ \E k \in 0..MaxSystems : \E system_lengths \in [1..k -> 1..MaxStaffs] :
          \E link_sinks_to_sources \in BOOLEAN :
              argument = [system_lengths |-> system_lengths,
                          link_sinks_to_sources |-> link_sinks_to_sources]
    /\ returned = <<>>

\* lines 1263-1290: the precedence inference raises, or the source nodes get
\* onset 0 and make up the queue
OnsetsBeginSystems ==
    /\ pc = "start"
    /\ IF systems_outcome(argument.system_lengths, argument.link_sinks_to_sources)
            = "raised"
       THEN OnsetsBecomes([OnsetsState EXCEPT !.pc = "raised"])
       ELSE OnsetsBegin

NextOnsetsSystems ==
    \/ OnsetsBeginSystems
    \/ OnsetsLoop
    \/ OnsetsReturn

SpecOnsetsSystems == InitOnsetsSystems /\ [][NextOnsetsSystems]_vars

\* --------------------------------------------------------- process_ties
\* the classes __get_tie_notes asks for (lines 1392-1393)
TieNoteClasses == {"noteheadFull", "noteheadHalf", "noteheadWhole"}

\* NotationGraph.children and NotationGraph.parents with a class filter
children(st, node_id, class_filter) ==
    SelectSeq(st.outlinks[node_id],
              LAMBDA c : c \in st.vertices /\ class_name[c] \in class_filter)

parents(st, node_id, class_filter) ==
    SelectSeq(st.inlinks[node_id],
              LAMBDA c : c \in st.vertices /\ class_name[c] \in class_filter)

\* del d[k]
DropKey(d, k) == [x \in DOMAIN d \ {k} |-> d[x]]

\* the keys of a dict with ids as keys, in the order of the ids
Keys(d) == Ascending(DOMAIN d)

\* A slip of the order: the notes are taken by ascending onset.
RECURSIVE sorted_by_onset_Ascending(_, _)
sorted_by_onset_Ascending(keys, table) ==
    IF keys = <<>> THEN <<>>
    ELSE LET i == CHOOSE j \in DOMAIN keys :
                      /\ \A m \in DOMAIN keys : table[keys[j]] <= table[keys[m]]
                      /\ \A m \in 1..(j - 1) : table[keys[m]] # table[keys[j]]
         IN  <<keys[i]>> \o
             sorted_by_onset_Ascending(
                 SubSeq(keys, 1, i - 1) \o SubSeq(keys, i + 1, Len(keys)), table)

\* sorted(onsets, key=lambda x: onsets[x], reverse=True), line 1418: the
\* largest onset first, notes of equal onset in the order of the dict
RECURSIVE sorted_by_onset(_, _)
sorted_by_onset(keys, table) ==
    IF keys = <<>> THEN <<>>
    ELSE LET i == CHOOSE j \in DOMAIN keys :
                      /\ \A m \in DOMAIN keys : table[keys[j]] >= table[keys[m]]
                      /\ \A m \in 1..(j - 1) : table[keys[m]] # table[keys[j]]
         IN  <<keys[i]>> \o
             sorted_by_onset(
                 SubSeq(keys, 1, i - 1) \o SubSeq(keys, i + 1, Len(keys)), table)

\* max(ties, key=lambda x: x.left), line 1425: the first of the rightmost
rightmost_tie(tie_list) ==
    LET i == CHOOSE j \in DOMAIN tie_list :
                 /\ \A m \in DOMAIN tie_list :
                        node_left[tie_list[j]] >= node_left[tie_list[m]]
                 /\ \A m \in 1..(j - 1) :
                        node_left[tie_list[m]] # node_left[tie_list[j]]
    IN  tie_list[i]

\* A slip of __get_tie_notes: a tie without noteheads is let through.
get_tie_notes_Tolerant(st, tie) ==
    LET notes == parents(st, tie, TieNoteClasses)
    IN  IF Len(notes) > 2
        THEN [raised |-> TRUE, notes |-> <<>>]
        ELSE IF Len(notes) = 2 /\ node_left[notes[2]] < node_left[notes[1]]
        THEN [raised |-> FALSE, notes |-> <<notes[2], notes[1]>>]
        ELSE [raised |-> FALSE, notes |-> notes]

\* __get_tie_notes, lines 1390-1402: the noteheads of a tie, left to right
get_tie_notes(st, tie) ==
    LET notes == parents(st, tie, TieNoteClasses)
    IN  IF Len(notes) = 0 \/ Len(notes) > 2
        THEN [raised |-> TRUE, notes |-> <<>>]
        ELSE IF Len(notes) = 2 /\ node_left[notes[2]] < node_left[notes[1]]
        THEN [raised |-> FALSE, notes |-> <<notes[2], notes[1]>>]
        ELSE [raised |-> FALSE, notes |-> notes]

\* the body of the loop of process_ties for the note k, lines 1419-1438
process_tied_note(st, ts, k) ==
    LET tie_list == children(st, k, {"tie"})
    IN  IF Len(tie_list) = 0 THEN ts
        ELSE LET tie == IF Len(tie_list) > 1 THEN rightmost_tie(tie_list)
                        ELSE tie_list[1]
                 tie_notes == get_tie_notes(st, tie)
                 l == tie_notes.notes[1]
                 r == tie_notes.notes[2]
             IN  IF tie_notes.raised THEN [ts EXCEPT !.raised = TRUE]
                 ELSE IF Len(tie_notes.notes) # 2 THEN ts
                 ELSE IF l # k THEN ts
                 ELSE IF r \notin DOMAIN ts.new_durations \/ r \notin DOMAIN ts.new_onsets
                 THEN [ts EXCEPT !.raised = TRUE]
                 ELSE [ts EXCEPT
                          !.new_durations[l] = @ + ts.new_durations[r],
                          !.new_onsets = DropKey(@, r)]

RECURSIVE TiesLoop(_, _, _)
TiesLoop(st, ts, keys) ==
    IF keys = <<>> \/ ts.raised THEN ts
    ELSE TiesLoop(st, process_tied_note(st, ts, Head(keys)), Tail(keys))

\* process_ties(nodes, durations, onsets), lines 1378-1441
process_ties(st, durations_arg, onsets_arg) ==
    LET ts == TiesLoop(st,
                       [new_onsets |-> onsets_arg, new_durations |-> durations_arg,
                        raised |-> FALSE],
                       sorted_by_onset(Keys(onsets_arg), onsets_arg))
    IN  IF ts.raised THEN ts
        ELSE IF \E k \in DOMAIN ts.new_onsets : k \notin DOMAIN ts.new_durations
        THEN [ts EXCEPT !.raised = TRUE]
        ELSE [ts EXCEPT !.new_durations = [k \in DOMAIN ts.new_onsets |-> @[k]]]

TieNotes == 1..NumTieNotes
TieIds == (NumTieNotes + 1)..(NumTieNotes + NumTies)

\* each note is twice as long as the one to its left, so that a sum of
\* durations tells which notes it is the sum of
TieDurations == {[n \in TieNotes |-> 2 ^ (n - 1)]}

\* the onset tables that give the notes the onsets 0, 1, ... in some order
OnsetTables == {[n \in TieNotes |-> order[n] - 1] : order \in Perms(TieNotes)}

LeftOfTie(attached) == CHOOSE x \in attached : \A y \in attached : x <= y

\* process_ties(nodes, durations, onsets) is about to be called: the noteheads
\* are numbered left to right and have one onset each, the last of them may be
\* a grace notehead; every tie hangs on one or more of the noteheads and
\* begins where the leftmost of them does; the edges are reciprocal.
InitTies ==
    /\ vertices = TieNotes \cup TieIds
    /\ \E attached \in [TieIds -> SUBSET TieNotes \ {{}}] :
          /\ inlinks = [n \in TieNotes \cup TieIds |->
                           IF n \in TieIds THEN Ascending(attached[n]) ELSE <<>>]
          /\ outlinks = [n \in TieNotes \cup TieIds |->
                            IF n \in TieIds THEN <<>>
                            ELSE Ascending({t \in TieIds : n \in attached[t]})]
          /\ node_left = [n \in TieNotes \cup TieIds |->
                             IF n \in TieIds THEN LeftOfTie(attached[n]) ELSE n]
    /\ precedence_inlinks = [n \in TieNotes \cup TieIds |-> <<>>]
    /\ precedence_outlinks = [n \in TieNotes \cup TieIds |-> <<>>]
    /\ \E last \in {"noteheadFull", "noteheadFullSmall"} :
          class_name = [n \in TieNotes \cup TieIds |->
                           IF n \in TieIds THEN "tie"
                           ELSE IF n = NumTieNotes THEN last ELSE "noteheadFull"]
    /\ call = [op |-> "init", raised |-> FALSE]
    /\ OnsetsIdleBut
    /\ onsets \in OnsetTables
    /\ durations \in TieDurations
    /\ new_durations = <<>>
    /\ new_onsets = <<>>
    /\ ties_pc = "start"
    /\ PitchStateNew
    /\ LaterIdle

ProcessTiesCall ==
    /\ ties_pc = "start"
    /\ LET ts == process_ties(GraphState, durations, onsets)
       IN  /\ ties_pc' = IF ts.raised THEN "raised" ELSE "returned"
           /\ new_durations' = IF ts.raised THEN <<>> ELSE ts.new_durations
           /\ new_onsets' = IF ts.raised THEN <<>> ELSE ts.new_onsets
    /\ call' = [op |-> "process_ties", raised |-> ties_pc' = "raised"]
    /\ UNCHANGED <<vertices, inlinks, outlinks, precedence_inlinks,
                   precedence_outlinks, class_name, onsetVars, node_left, durations,
                   pitchVars, laterVars>>

NextTies == ProcessTiesCall

SpecTies == InitTies /\ [][NextTies]_vars

\* -------------------------------------------- PitchInferenceEngineState
ClefClasses == {"gClef", "cClef", "fClef"}

\* the classes of the accidental nodes (constants.py 73-77, 247-253)
AccidentalClasses ==
    {"accidentalSharp", "accidentalFlat", "accidentalNatural",
     "accidentalDoubleSharp", "accidentalDoubleFlat"}

\* the attributes of the state as a value
PitchState ==
    [base_pitch |-> base_pitch, base_pitch_step |-> base_pitch_step,
     base_pitch_octave |-> base_pitch_octave, current_clef |-> current_clef,
     current_delta_steps |-> current_delta_steps,
     current_clef_delta_shift |-> current_clef_delta_shift,
     key_accidentals |-> key_accidentals,
     inline_accidentals |-> inline_accidentals, raised |-> FALSE]

\* A slip of reset(): the key signature is kept.
reset_KeepsKey(ps) ==
    [ps EXCEPT !.base_pitch = None, !.current_clef = NoClef,
               !.current_delta_steps = <<>>, !.inline_accidentals = <<>>]

\* reset(), lines 100-105
reset(ps) ==
    [ps EXCEPT !.base_pitch = None, !.current_clef = NoClef,
               !.current_delta_steps = <<>>, !.key_accidentals = <<>>,
               !.inline_accidentals = <<>>]

\* lines 139-153: base pitch, step table, step and octave of a clef; no clef
\* counts as a G clef
ClefTable(clef) ==
    CASE clef \in {NoClef, "gClef"} ->
            [base_pitch |-> 71, delta_steps |-> <<0, 1, 2, 2, 1, 2, 2, 2>>,
             step |-> 6, octave |-> 4]
      [] clef = "fClef" ->
            [base_pitch |-> 50, delta_steps |-> <<0, 2, 1, 2, 2, 2, 1, 2>>,
             step |-> 1, octave |-> 3]
      [] clef = "cClef" ->
            [base_pitch |-> 60, delta_steps |-> <<0, 2, 2, 1, 2, 2, 2, 1>>,
             step |-> 0, octave |-> 4]

\* A slip of the table: the clefs are an octave apart, so that no step moves.
CLEF_CHANGE_DELTA_Octaves(from, to) ==
    LET place == [c \in ClefClasses |->
                     CASE c = "gClef" -> 0 [] c = "cClef" -> 7 [] c = "fClef" -> 14]
    IN  place[to] - place[from]

\* InferenceEngineConstants.CLEF_CHANGE_DELTA[from][to], constants.py 303-319
CLEF_CHANGE_DELTA(from, to) ==
    LET place == [c \in ClefClasses |->
                     CASE c = "gClef" -> 0 [] c = "cClef" -> 6 [] c = "fClef" -> 12]
    IN  place[to] - place[from]

\* the key d of an accidental dict after a clef change: (d + delta) % 7 in the
\* key map, d + delta in the inline map
ShiftedKey(d, transposition_delta, mod7) ==
    IF mod7 THEN (d + transposition_delta) % 7 ELSE d + transposition_delta

\* the dict {shifted d: dict[d] for d in dict}
ShiftKeys(dict, transposition_delta, mod7) ==
    [k \in {ShiftedKey(d, transposition_delta, mod7) : d \in DOMAIN dict} |->
        dict[CHOOSE d \in DOMAIN dict : ShiftedKey(d, transposition_delta, mod7) = k]]

\* init_base_pitch_default_staffline(clef), lines 129-178; clef is the class
\* name of the clef node, or NoClef
init_base_pitch_default_staffline(ps, clef) ==
    IF ps.current_clef # NoClef /\ clef = NoClef
    THEN [ps EXCEPT !.raised = TRUE]
    ELSE LET transposition_delta ==
                 IF ps.current_clef # NoClef
                 THEN CLEF_CHANGE_DELTA(ps.current_clef, clef) ELSE 0
             s1 == IF transposition_delta # 0
                   THEN [ps EXCEPT
                            !.key_accidentals =
                                ShiftKeys(@, transposition_delta, TRUE),
                            !.inline_accidentals =
                                ShiftKeys(@, transposition_delta, FALSE)]
                   ELSE ps
         IN  [s1 EXCEPT !.base_pitch = ClefTable(clef).base_pitch,
                        !.base_pitch_step = ClefTable(clef).step,
                        !.base_pitch_octave = ClefTable(clef).octave,
                        !.current_clef = clef,
                        !.current_delta_steps = ClefTable(clef).delta_steps]

\* init_base_pitch(clef, delta), lines 123-127
init_base_pitch(ps, clef, delta) ==
    LET s1 == init_base_pitch_default_staffline(ps, clef)
    IN  IF s1.raised THEN s1
        ELSE [s1 EXCEPT !.current_clef_delta_shift = -1 * delta]

\* lines 204-212: the steps of the sharps and of the flats, in key order
deltas_sharp(clef) ==
    CASE clef \in {NoClef, "gClef"} -> <<4, 1, 5, 2, 6, 3, 0>>
      [] clef = "cClef" -> <<3, 0, 4, 1, 5, 2, 6>>
      [] clef = "fClef" -> <<2, 6, 3, 0, 4, 1, 5>>

deltas_flat(clef) ==
    CASE clef \in {NoClef, "gClef"} -> <<0, 3, 6, 2, 5, 1, 4>>
      [] clef = "cClef" -> <<6, 2, 5, 1, 4, 0, 3>>
      [] clef = "fClef" -> <<5, 1, 4, 0, 3, 6, 2>>

\* set_key(number_of_sharps, number_of_flats), lines 180-221
set_key(ps, number_of_sharps, number_of_flats) ==
    IF number_of_flats + number_of_sharps > 7 THEN [ps EXCEPT !.raised = TRUE]
    ELSE IF ps.base_pitch = None THEN [ps EXCEPT !.raised = TRUE]
    ELSE LET sharps == {deltas_sharp(ps.current_clef)[i] : i \in 1..number_of_sharps}
             flats == {deltas_flat(ps.current_clef)[i] : i \in 1..number_of_flats}
         IN  [ps EXCEPT !.key_accidentals =
                 [d \in sharps \cup flats |-> IF d \in flats THEN "flat" ELSE "sharp"]]

\* set_inline_accidental(delta, accidental), lines 223-224: the class name of
\* the accidental node is stored
set_inline_accidental(ps, delta, accidental_class) ==
    [ps EXCEPT !.inline_accidentals = Put(@, delta, accidental_class)]

\* reset_inline_accidentals(), lines 226-227
reset_inline_accidentals(ps) == [ps EXCEPT !.inline_accidentals = <<>>]

\* lines 236-243 and 247-257: the semitones of the accidental kinds the
\* method knows; any other value leaves pitch_mod as it is
KindModifier(kind, pitch_mod) ==
    CASE kind = "natural" -> 0
      [] kind = "sharp" -> 1
      [] kind = "double_sharp" -> 2
      [] kind = "flat" -> -1
      [] kind = "double_flat" -> -2
      [] OTHER -> pitch_mod

\* accidental(delta), lines 229-258; a natural in the key map is not looked at
accidental(ps, delta) ==
    LET step_delta == delta % 7
        key_mod == IF step_delta \in DOMAIN ps.key_accidentals
                      /\ ps.key_accidentals[step_delta] # "natural"
                   THEN KindModifier(ps.key_accidentals[step_delta], 0)
                   ELSE 0
    IN  IF delta \in DOMAIN ps.inline_accidentals
        THEN KindModifier(ps.inline_accidentals[delta], key_mod)
        ELSE key_mod

\* sum(list[:n])
RECURSIVE SumFirst(_, _)
SumFirst(list, n) == IF n = 0 THEN 0 ELSE SumFirst(list, n - 1) + list[n]

\* pitch(delta), lines 260-290
pitch(ps, delta_arg) ==
    LET delta == delta_arg + ps.current_clef_delta_shift
        delta_step == delta % 7
        delta_octave == delta \div 7
        step_pitch == ps.base_pitch + SumFirst(ps.current_delta_steps, delta_step + 1)
                          + (delta_octave * 12)
    IN  step_pitch + accidental(ps, delta)

\* the deltas of the stafflines a clef is attached to, the key signatures, the
\* deltas of the noteheads that carry an accidental, and the deltas asked for
ClefDeltas == {0, 2}
KeyCounts == {c \in (0..7) \X (0..7) : c[1] = 0 \/ c[2] = 0 \/ c = <<4, 4>>}
InlineDeltas == {0}
Deltas == (-MaxDelta)..MaxDelta

\* the attributes take the values of the state value a method returned; a
\* method that raised has changed nothing
PitchBecomes(op, ps) ==
    /\ base_pitch' = ps.base_pitch
    /\ base_pitch_step' = ps.base_pitch_step
    /\ base_pitch_octave' = ps.base_pitch_octave
    /\ current_clef' = ps.current_clef
    /\ current_delta_steps' = ps.current_delta_steps
    /\ current_clef_delta_shift' = ps.current_clef_delta_shift
    /\ key_accidentals' = ps.key_accidentals
    /\ inline_accidentals' = ps.inline_accidentals
    /\ call' = [op |-> op, raised |-> ps.raised]
    /\ UNCHANGED <<vertices, inlinks, outlinks, precedence_inlinks,
                   precedence_outlinks, class_name, onsetVars, tieVars, laterVars>>

\* a PitchInferenceEngineState was made
InitPitch ==
    /\ vertices = {}
    /\ inlinks = <<>>
    /\ outlinks = <<>>
    /\ precedence_inlinks = <<>>
    /\ precedence_outlinks = <<>>
    /\ class_name = <<>>
    /\ call = [op |-> "init", raised |-> FALSE]
    /\ OnsetsIdle
    /\ TiesIdle
    /\ PitchStateNew
    /\ LaterIdle

ResetCall ==
    /\ PitchBecomes("reset", reset(PitchState))
    /\ pitch_delta' = None
    /\ pitch_value' = None

InitBasePitchCall(clef, delta) ==
    /\ PitchBecomes("init_base_pitch", init_base_pitch(PitchState, clef, delta))
    /\ pitch_delta' = None
    /\ pitch_value' = None

\* init_base_pitch() at the start of a staff, init_base_pitch(clef, delta) at
\* a clef
InitBasePitch ==
    \/ InitBasePitchCall(NoClef, 0)
    \/ \E clef \in ClefClasses, delta \in ClefDeltas : InitBasePitchCall(clef, delta)

SetKeyCall(number_of_sharps, number_of_flats) ==
    /\ PitchBecomes("set_key", set_key(PitchState, number_of_sharps, number_of_flats))
    /\ pitch_delta' = None
    /\ pitch_value' = None

SetKey == \E c \in KeyCounts : SetKeyCall(c[1], c[2])

SetInlineAccidentalCall(delta, accidental_class) ==
    /\ PitchBecomes("set_inline_accidental",
                    set_inline_accidental(PitchState, delta, accidental_class))
    /\ pitch_delta' = None
    /\ pitch_value' = None

SetInlineAccidental ==
    /\ Cardinality(DOMAIN inline_accidentals) < MaxInline
    /\ \E delta \in InlineDeltas, c \in AccidentalClasses :
           SetInlineAccidentalCall(delta, c)

ResetInlineAccidentalsCall ==
    /\ PitchBecomes("reset_inline_accidentals", reset_inline_accidentals(PitchState))
    /\ pitch_delta' = None
    /\ pitch_value' = None

\* pitch(delta) on a state whose base pitch is set (it fails on None + int)
PitchCall(delta) ==
    /\ base_pitch # None
    /\ PitchBecomes("pitch", PitchState)
    /\ pitch_delta' = delta
    /\ pitch_value' = pitch(PitchState, delta)

Pitch == \E delta \in Deltas : PitchCall(delta)

NextPitch ==
    \/ ResetCall
    \/ InitBasePitch
    \/ SetKey
    \/ SetInlineAccidental
    \/ ResetInlineAccidentalsCall
    \/ Pitch

SpecPitch == InitPitch /\ [][NextPitch]_vars

\* the clefs, the key signatures and the inline accidentals of a staff, no
\* pitch being asked for
NextClefKey ==
    \/ InitBasePitch
    \/ SetKey
    \/ SetInlineAccidental

SpecClefKey == InitPitch /\ [][NextClefKey]_vars

\* ------------------------------------------------- PitchInferenceEngine
\* The symbols of a staff are records: class_name, id and left (both the place
\* of the symbol on the staff, from the left), stafflines (the 0-based
\* top-to-bottom ranks, among the 11 stafflines and staffspaces of the staff,
\* of the staffline objects the symbol is attached to), children (the class
\* names of its other children, in outlink order) and ties (for each attached
\* tie, the ids of the noteheads attached to that tie, in inlink order).
NOTEHEAD_CLASS_NAMES ==
    {"noteheadFull", "noteheadHalf", "noteheadWhole", "noteheadFullSmall",
     "noteheadHalfSmall"}

\* InferenceEngineConstants.PITCH_STEPS, constants.py 321-322 (0-based there)
PITCH_STEPS == <<"C", "D", "E", "F", "G", "A", "B">>

\* InferenceEngineConstants.ACCIDENTAL_CODES, constants.py 325-330
ACCIDENTAL_CODES ==
    [c \in {"accidentalSharp", "accidentalFlat", "accidentalDoubleSharp",
            "accidentalDoubleFlat"} |->
        CASE c = "accidentalSharp" -> "#"
          [] c = "accidentalFlat" -> "b"
          [] c = "accidentalDoubleSharp" -> "x"
          [] c = "accidentalDoubleFlat" -> "bb"]

\* pitch_name(delta), lines 292-310: <<letter, glyph, octave>>, or raised when
\* the key asked of ACCIDENTAL_CODES is not one of its keys; the test for the
\* double flat repeats the one for the double sharp
pitch_name(ps, delta_arg) ==
    LET delta == delta_arg + ps.current_clef_delta_shift
        output_step == PITCH_STEPS[((ps.base_pitch_step + delta) % 7) + 1]
        output_octave == ps.base_pitch_octave + ((delta + ps.base_pitch_step) \div 7)
        acc == accidental(ps, delta)
        code == CASE acc = 1 -> "sharp"
                  [] acc = 2 -> "double_sharp"
                  [] acc = -1 -> "flat"
                  [] OTHER -> ""
    IN  IF code = "" THEN [raised |-> FALSE, name |-> <<output_step, "", output_octave>>]
        ELSE IF code \in DOMAIN ACCIDENTAL_CODES
        THEN [raised |-> FALSE,
              name |-> <<output_step, ACCIDENTAL_CODES[code], output_octave>>]
        ELSE [raised |-> TRUE, name |-> <<>>]

\* staffline_delta(symbol), lines 733-757, for a symbol attached to one
\* staffline or staffspace of its staff
staffline_delta(q) == 5 - q.stafflines[1]

\* the engine as a value: the pitch state, the two tables, and whether the
\* call raised
EngineState ==
    [ps |-> PitchState, pitches |-> pitches, pitch_names |-> pitch_names,
     raised |-> FALSE]

\* __warning_or_error(message), lines 894-898
warning_or_error(es) == IF permissive THEN es ELSE [es EXCEPT !.raised = TRUE]

\* min(tied_noteheads, key=lambda x: x.left).id; the left of a notehead is its
\* id
left_tied_notehead(tied_noteheads) == Min(tied_noteheads)

\* process_notehead, lines 532-558: the loop over the ties of the notehead.
\* "raise": a tie of more than 2 noteheads, or a left notehead without pitch;
\* "return": the pitch of the left notehead is returned; "compute": the pitch
\* is to be computed
RECURSIVE tie_outcome(_, _, _)
tie_outcome(es, notehead, ties) ==
    IF ties = <<>> THEN [kind |-> "compute", of |-> None]
    ELSE LET tied_noteheads == Head(ties)
         IN  IF Len(tied_noteheads) > 2 THEN [kind |-> "raise", of |-> None]
             ELSE IF Len(tied_noteheads) < 2 THEN [kind |-> "compute", of |-> None]
             ELSE IF left_tied_notehead(tied_noteheads) # notehead.id
             THEN IF left_tied_notehead(tied_noteheads) \in DOMAIN es.pitches
                  THEN [kind |-> "return", of |-> left_tied_notehead(tied_noteheads)]
                  ELSE [kind |-> "raise", of |-> None]
             ELSE tie_outcome(es, notehead, Tail(ties))

\* process_notehead, lines 576-600: the inline accidentals of the notehead are
\* registered; a natural is looked for under the class name 'natural'
register_accidentals(es, notehead, delta) ==
    LET IsAccidental(c) == c \in AccidentalClasses
        IsNatural(c) == c = "natural"
        IsNotNatural(c) == c # "natural"
        accidentals == SelectSeq(notehead.children, IsAccidental)
        naturals == SelectSeq(accidentals, IsNatural)
        non_naturals == SelectSeq(accidentals, IsNotNatural)
        Set(e, c) == [e EXCEPT !.ps = set_inline_accidental(@, delta, c)]
    IN  IF Len(accidentals) > 2 THEN warning_or_error(es)
        ELSE IF Len(accidentals) = 2
        THEN LET e1 == IF Len(naturals) = 0 THEN warning_or_error(es) ELSE es
             IN  IF e1.raised THEN e1
                 ELSE IF Len(non_naturals) = 0
                 THEN LET e2 == warning_or_error(e1)
                      IN  IF e2.raised THEN e2 ELSE Set(e2, naturals[1])
                 ELSE Set(e1, non_naturals[1])
        ELSE IF Len(accidentals) = 1 THEN Set(es, accidentals[1])
        ELSE es

\* process_notehead(notehead, with_name=True), lines 521-619, and the four
\* assignments of process_staff that record what it returned (lines 503-507)
process_notehead(es, notehead) ==
    LET tie == tie_outcome(es, notehead, notehead.ties)
        Record(e, p, pn) ==
            [e EXCEPT !.pitches = Put(@, notehead.id, p),
                      !.pitch_names = Put(@, notehead.id, pn)]
    IN  IF tie.kind = "raise" THEN [es EXCEPT !.raised = TRUE]
        ELSE IF tie.kind = "return"
        THEN Record(es, es.pitches[tie.of], es.pitch_names[tie.of])
        ELSE LET delta == staffline_delta(notehead)
                 e1 == register_accidentals(es, notehead, delta)
                 pn == pitch_name(e1.ps, delta)
             IN  IF e1.raised THEN e1
                 ELSE IF pn.raised THEN [e1 EXCEPT !.raised = TRUE]
                 ELSE Record(e1, pitch(e1.ps, delta), pn.name)

\* A slip of the measure separator: it ends the key signature as well.
process_measure_separator_KeyToo(es, measure_separator) ==
    [es EXCEPT !.ps = [reset_inline_accidentals(@) EXCEPT !.key_accidentals = <<>>]]

\* process_measure_separator, lines 763-764
process_measure_separator(es, measure_separator) ==
    [es EXCEPT !.ps = reset_inline_accidentals(@)]

\* process_key_signature, lines 766-769: the children of the classes 'sharp'
\* and 'flat' are counted
process_key_signature(es, key_signature) ==
    LET IsSharp(c) == c = "sharp"
        IsFlat(c) == c = "flat"
        sharps == SelectSeq(key_signature.children, IsSharp)
        flats == SelectSeq(key_signature.children, IsFlat)
        ps == set_key(es.ps, Len(sharps), Len(flats))
    IN  IF ps.raised THEN [es EXCEPT !.raised = TRUE]
        ELSE [es EXCEPT !.ps = ps]

\* process_clef, lines 771-783
process_clef(es, clef) ==
    LET ps == IF Len(clef.stafflines) = 0
              THEN init_base_pitch(es.ps, clef.class_name, 0)
              ELSE init_base_pitch(es.ps, clef.class_name, staffline_delta(clef))
    IN  IF ps.raised THEN [es EXCEPT !.raised = TRUE]
        ELSE [es EXCEPT !.ps = ps]

\* the symbols the staves of the specification are made of
Symbol(class, stafflines, symbol_children) ==
    [class_name |-> class, stafflines |-> stafflines, children |-> symbol_children]

ClefShapes == {Symbol("fClef", <<>>, <<>>), Symbol("gClef", <<7>>, <<>>)}

KeyShapes ==
    {Symbol("keySignature", <<>>, <<"accidentalFlat">>),
     Symbol("keySignature", <<>>, <<"flat">>),
     Symbol("keySignature", <<>>, <<"sharp">>)}

MeasureSeparatorShapes == {Symbol("measureSeparator", <<>>, <<>>)}

NoteheadShapes ==
    {Symbol("noteheadFull", <<5>>, a) :
        a \in {<<>>, <<"accidentalSharp">>,
               <<"accidentalNatural", "accidentalSharp">>,
               <<"accidentalSharp", "accidentalFlat", "accidentalNatural">>}}

Shapes == ClefShapes \cup KeyShapes \cup MeasureSeparatorShapes \cup NoteheadShapes

\* the noteheads a tie of the staff may be attached to: none (no tie), the
\* last notehead of the staff alone, or with a notehead of another staff
\* further left (id 0), or with the first notehead of the staff, or with both
TieShapes(shapes) ==
    LET noteheads == {i \in DOMAIN shapes : shapes[i].class_name \in NOTEHEAD_CLASS_NAMES}
        last == Max(Ascending(noteheads))
        first == Min(Ascending(noteheads))
    IN  IF noteheads = {} THEN {<<>>}
        ELSE {<<>>, <<last>>, <<0, last>>}
                 \cup (IF first # last THEN {<<first, last>>, <<0, first, last>>} ELSE {})

\* sorted(clefs + keys + measure separators + noteheads, key=left), lines
\* 486-491, for the symbols of given shapes and one tie
StaffQueue(shapes, tie) ==
    [i \in DOMAIN shapes |->
        [class_name |-> shapes[i].class_name, id |-> i, left |-> i,
         stafflines |-> shapes[i].stafflines, children |-> shapes[i].children,
         ties |-> IF In(i, tie) THEN <<tie>> ELSE <<>>]]


\* the attributes of the engine and of its pitch state take the values of the
\* engine value a step returned
SweepBecomes(op, es) ==
    /\ base_pitch' = es.ps.base_pitch
    /\ base_pitch_step' = es.ps.base_pitch_step
    /\ base_pitch_octave' = es.ps.base_pitch_octave
    /\ current_clef' = es.ps.current_clef
    /\ current_delta_steps' = es.ps.current_delta_steps
    /\ current_clef_delta_shift' = es.ps.current_clef_delta_shift
    /\ key_accidentals' = es.ps.key_accidentals
    /\ inline_accidentals' = es.ps.inline_accidentals
    /\ pitches' = es.pitches
    /\ pitch_names' = es.pitch_names
    /\ call' = [op |-> op, raised |-> es.raised]
    /\ sweep_pc' = IF es.raised THEN "raised" ELSE "loop"
    /\ sweep_pos' = IF es.raised THEN sweep_pos ELSE sweep_pos + 1
    /\ UNCHANGED <<vertices, inlinks, outlinks, precedence_inlinks,
                   precedence_outlinks, class_name, onsetVars, tieVars,
                   pitch_delta, pitch_value, permissive, staff_queue, beatsVars,
                   timeSigVars, callVars>>

\* infer_pitches on the symbols of one staff, up to the call of process_staff
InitSweep ==
    /\ vertices = {}
    /\ inlinks = <<>>
    /\ outlinks = <<>>
    /\ precedence_inlinks = <<>>
    /\ precedence_outlinks = <<>>
    /\ class_name = <<>>
    /\ call = [op |-> "init", raised |-> FALSE]
    /\ OnsetsIdle
    /\ TiesIdle
    /\ PitchStateNew
    /\ permissive \in BOOLEAN
    /\ \E n \in 1..MaxSymbols : \E shapes \in [1..n -> Shapes] :
           \E tie \in TieShapes(shapes) : staff_queue = StaffQueue(shapes, tie)
    /\ sweep_pos = 0
    /\ sweep_pc = "start"
    /\ pitches = <<>>
    /\ pitch_names = <<>>
    /\ BeatsIdle
    /\ TimeSigIdle
    /\ CallIdle

\* process_staff, lines 478-491: the state is reset and the queue is made
ProcessStaffBegin ==
    /\ sweep_pc = "start"
    /\ SweepBecomes("process_staff",
                    [EngineState EXCEPT !.ps = init_base_pitch(reset(@), NoClef, 0)])

\* the symbol the loop of process_staff is at (lines 493-507)
AtSymbol(classes) ==
    /\ sweep_pc = "loop"
    /\ sweep_pos <= Len(staff_queue)
    /\ staff_queue[sweep_pos].class_name \in classes

ProcessClef ==
    /\ AtSymbol(ClefClasses)
    /\ SweepBecomes("process_clef", process_clef(EngineState, staff_queue[sweep_pos]))

ProcessKeySignature ==
    /\ AtSymbol({"keySignature"})
    /\ SweepBecomes("process_key_signature",
                    process_key_signature(EngineState, staff_queue[sweep_pos]))

ProcessMeasureSeparator ==
    /\ AtSymbol({"measureSeparator"})
    /\ SweepBecomes("process_measure_separator",
                    process_measure_separator(EngineState, staff_queue[sweep_pos]))

ProcessNotehead ==
    /\ AtSymbol(NOTEHEAD_CLASS_NAMES)
    /\ SweepBecomes("process_notehead",
                    process_notehead(EngineState, staff_queue[sweep_pos]))

\* process_staff, line 519
ProcessStaffReturn ==
    /\ sweep_pc = "loop"
    /\ sweep_pos > Len(staff_queue)
    /\ sweep_pc' = "returned"
    /\ call' = [op |-> "return", raised |-> FALSE]
    /\ UNCHANGED <<vertices, inlinks, outlinks, precedence_inlinks,
                   precedence_outlinks, class_name, onsetVars, tieVars, pitchVars,
                   permissive, staff_queue, sweep_pos, pitches, pitch_names,
                   beatsVars, timeSigVars, callVars>>

NextSweep ==
    \/ ProcessStaffBegin
    \/ ProcessClef
    \/ ProcessKeySignature
    \/ ProcessMeasureSeparator
    \/ ProcessNotehead
    \/ ProcessStaffReturn

SpecSweep == InitSweep /\ [][NextSweep]_vars

\* staves of clefs, keys, measure separators and plain noteheads with up to MaxTies
\* ties: a tie is the ascending list of the noteheads attached to it, one of
\* the staff at least, at most three, id 0 being a notehead of another staff
\* further left
TiesOn(shapes) ==
    LET noteheads == {i \in DOMAIN shapes : shapes[i].class_name \in NOTEHEAD_CLASS_NAMES}
    IN  {Ascending(attached) : attached \in
            {a \in SUBSET (noteheads \cup {0}) :
                a \cap noteheads # {} /\ Cardinality(a) <= 3}}

\* the queue of process_staff for symbols of given shapes and a list of ties:
\* a notehead lists its ties in the order of that list
TiedStaffQueue(shapes, tie_list) ==
    [i \in DOMAIN shapes |->
        LET Attached(tie) == In(i, tie)
        IN  [class_name |-> shapes[i].class_name, id |-> i, left |-> i,
             stafflines |-> shapes[i].stafflines, children |-> shapes[i].children,
             ties |-> SelectSeq(tie_list, Attached)]]

InitSweepTies ==
    /\ vertices = {}
    /\ inlinks = <<>>
    /\ outlinks = <<>>
    /\ precedence_inlinks = <<>>
    /\ precedence_outlinks = <<>>
    /\ class_name = <<>>
    /\ call = [op |-> "init", raised |-> FALSE]
    /\ OnsetsIdle
    /\ TiesIdle
    /\ PitchStateNew
    /\ permissive \in BOOLEAN
    /\ \E n \in 1..MaxSymbols :
         \E shapes \in [1..n -> ClefShapes \cup MeasureSeparatorShapes
                                   \cup {Symbol("keySignature", <<>>, <<"sharp">>),
                                         Symbol("noteheadFull", <<5>>, <<>>)}] :
           \E k \in 0..MaxTies : \E tie_list \in [1..k -> TiesOn(shapes)] :
               staff_queue = TiedStaffQueue(shapes, tie_list)
    /\ sweep_pos = 0
    /\ sweep_pc = "start"
    /\ pitches = <<>>
    /\ pitch_names = <<>>
    /\ BeatsIdle
    /\ TimeSigIdle
    /\ CallIdle

SpecSweepTies == InitSweepTies /\ [][NextSweep]_vars

\* ------------------------------------------- infer_pitches, staff by staff
\* the staves of the specification: an F clef, a key signature of one flat,
\* a measure separator or a plain notehead on the middle line each, MaxSymbols
\* symbols in all the staves together; the first and the last notehead of a
\* staff may be tied
StaveShapes ==
    {Symbol("fClef", <<>>, <<>>), Symbol("keySignature", <<>>, <<"flat">>),
     Symbol("measureSeparator", <<>>, <<>>), Symbol("noteheadFull", <<5>>, <<>>)}

\* the queue of a staff whose symbols have the ids after `offset`, the last
\* id of the staves before it
NumberedStaffQueue(shapes, tie, offset) ==
    LET Renumbered(list) == [j \in DOMAIN list |-> list[j] + offset]
    IN  [i \in DOMAIN shapes |->
            [class_name |-> shapes[i].class_name, id |-> i + offset, left |-> i,
             stafflines |-> shapes[i].stafflines, children |-> shapes[i].children,
             ties |-> IF In(i, tie) THEN <<Renumbered(tie)>> ELSE <<>>]]

StaveQueues(offset) ==
    UNION {{NumberedStaffQueue(shapes, tie, offset) :
               tie \in {t \in TieShapes(shapes) : ~In(0, t)}} :
           shapes \in UNION {[1..n -> StaveShapes] : n \in 1..(MaxSymbols - offset)}}

\* infer_pitches, lines 453-468, at the first staff of self.staves; argument
\* is the index of the staff the loop is at
InitStaves ==
    /\ vertices = {}
    /\ inlinks = <<>>
    /\ outlinks = <<>>
    /\ precedence_inlinks = <<>>
    /\ precedence_outlinks = <<>>
    /\ class_name = <<>>
    /\ call = [op |-> "init", raised |-> FALSE]
    /\ OnsetsIdle
    /\ TiesIdle
    /\ PitchStateNew
    /\ permissive = FALSE
    /\ staff_queue \in StaveQueues(0)
    /\ sweep_pos = 0
    /\ sweep_pc = "start"
    /\ pitches = <<>>
    /\ pitch_names = <<>>
    /\ BeatsIdle
    /\ TimeSigIdle
    /\ argument = 1
    /\ returned = <<>>

\* the loop of infer_pitches, lines 470-472, goes on to the next staff: the
\* pitch state and the tables of the engine are as the last staff left them
NextStaffCall(next_queue) ==
    /\ sweep_pc = "returned"
    /\ argument < MaxStaffs
    /\ staff_queue' = next_queue
    /\ sweep_pos' = 0
    /\ sweep_pc' = "start"
    /\ argument' = argument + 1
    /\ call' = [op |-> "next_staff", raised |-> FALSE]
    /\ UNCHANGED <<vertices, inlinks, outlinks, precedence_inlinks,
                   precedence_outlinks, class_name, onsetVars, tieVars, pitchVars,
                   permissive, pitches, pitch_names, beatsVars, timeSigVars,
                   returned>>

NextStaff ==
    \E next_queue \in StaveQueues(staff_queue[Len(staff_queue)].id) :
        NextStaffCall(next_queue)

NextStaves ==
    \/ NextSweep
    \/ NextStaff

SpecStaves == InitStaves /\ [][NextStaves]_vars

\* ------------------------------------------- OnsetsInferenceEngine: durations
\* fractions.Fraction: <<numerator, denominator>> in lowest terms
RECURSIVE GCD(_, _)
GCD(a, b) == IF b = 0 THEN a ELSE GCD(b, a % b)

Fraction(n, d) == <<n \div GCD(n, d), d \div GCD(n, d)>>

Times(x, y) == Fraction(x[1] * y[1], x[2] * y[2])

Plus(x, y) == Fraction(x[1] * y[2] + y[1] * x[2], x[2] * y[2])

\* Fraction(1, 2) ** k
HalfPower(k) == Fraction(1, 2 ^ k)

\* A symbol whose duration is asked for is a record: class_name, stems (the
\* number of its stem children), flags_and_beams (for each flag or beam child,
\* whether its vertical centre is above the centre of the symbol), tuples (for
\* each tuple child its numerals, as digits from left to right, and the number
\* of noteheads attached to it) and ddots (the number of its augmentation
\* dots). It is attached to no staff.
GRACE_NOTEHEAD_CLASS_NAMES == {"noteheadFullSmall", "noteheadHalfSmall"}

NOTEHEADS_EMPTY == {"noteheadHalf", "noteheadWhole"}

MEASURE_LASTING_CLASS_NAMES ==
    {"restWhole", "rest_breve", "rest_longa", "multiMeasureRest", "repeat1Bar"}

\* ClassNamesConstants.rest_name_to_duration, constants.py 85-112
rest_name_to_duration ==
    [c \in {"rest_longa", "rest_breve", "restWhole", "restHalf", "restQuarter",
            "rest8th", "rest16th", "rest32nd", "rest64th", "multiMeasureRest",
            "repeat1Bar"} |->
        CASE c = "rest_longa" -> Fraction(16, 1)
          [] c = "rest_breve" -> Fraction(8, 1)
          [] c \in {"restWhole", "multiMeasureRest", "repeat1Bar"} -> Fraction(4, 1)
          [] c = "restHalf" -> Fraction(2, 1)
          [] c = "restQuarter" -> Fraction(1, 1)
          [] c = "rest8th" -> Fraction(1, 2)
          [] c = "rest16th" -> Fraction(1, 4)
          [] c = "rest32nd" -> Fraction(1, 8)
          [] c = "rest64th" -> Fraction(1, 16)]

\* InferenceEngineConstants.REST_CLASS_NAMES, constants.py 332-343
REST_CLASS_NAMES == DOMAIN rest_name_to_duration \ {"repeat1Bar"}

\* Numerals.interpret, constants.py 127-151, on the digits of the numerals:
\* None for no numeral, else the digits read in base 10
RECURSIVE interpret(_)
interpret(numeral_list) ==
    IF numeral_list = <<>> THEN None
    ELSE LET n == Len(numeral_list)
             front == interpret(SubSeq(numeral_list, 1, n - 1))
         IN  (IF front = None THEN 0 ELSE front) * 10 + numeral_list[n]

\* a value a method returned, and a method that raised
Returned(v) == [raised |-> FALSE, value |-> v]
Raised == [raised |-> TRUE, value |-> <<>>]

\* A slip of the tuple table: a number it does not hold changes nothing.
tuple_modifier_Lenient(tuple_number) ==
    CASE tuple_number = 2 -> Returned(Fraction(3, 2))
      [] tuple_number \in {3, 6} -> Returned(Fraction(2, 3))
      [] tuple_number = 4 -> Returned(Fraction(4, 3))
      [] tuple_number \in {5, 10} -> Returned(Fraction(4, 5))
      [] tuple_number = 7 -> Returned(Fraction(8, 7))
      [] OTHER -> Returned(Fraction(1, 1))

\* _compute_duration_modifier, lines 199-229: the modifier of a tuple number
tuple_modifier(tuple_number) ==
    CASE tuple_number = 2 -> Returned(Fraction(3, 2))
      [] tuple_number = 3 -> Returned(Fraction(2, 3))
      [] tuple_number = 4 -> Returned(Fraction(4, 3))
      [] tuple_number = 5 -> Returned(Fraction(4, 5))
      [] tuple_number = 6 -> Returned(Fraction(2, 3))
      [] tuple_number = 7 -> Returned(Fraction(8, 7))
      [] tuple_number = 10 -> Returned(Fraction(4, 5))
      [] OTHER -> Raised

\* A slip of the dots: every dot adds a half.
dot_duration_modifier_Halves(ddots) == Fraction(2 + ddots, 2)

\* _compute_duration_modifier, lines 232-235: the modifier of the dots
RECURSIVE dot_duration_modifier(_)
dot_duration_modifier(ddots) ==
    IF ddots = 0 THEN Fraction(1, 1)
    ELSE Plus(dot_duration_modifier(ddots - 1), HalfPower(ddots))

\* _compute_duration_modifier(notehead), lines 162-238
compute_duration_modifier(notehead) ==
    LET tuple_ == notehead.tuples[1]
        tuple_number == IF interpret(tuple_.numerals) = None THEN tuple_.noteheads
                        ELSE interpret(tuple_.numerals)
        of_tuple == IF Len(notehead.tuples) = 1 THEN tuple_modifier(tuple_number)
                    ELSE Returned(Fraction(1, 1))
    IN  IF Len(notehead.tuples) > 1 THEN Raised
        ELSE IF of_tuple.raised THEN Raised
        ELSE Returned(Times(of_tuple.value, dot_duration_modifier(notehead.ddots)))

\* __warning_or_error of the onsets engine, lines 1372-1376: whether it raises
strategy_raises == ~strategy_permissive

\* process_multistem_notehead(notehead), lines 333-385: the list of durations
process_multistem_notehead(notehead) ==
    LET IsAbove(c) == c
        IsBelow(c) == ~c
        beat_above == HalfPower(Len(SelectSeq(notehead.flags_and_beams, IsAbove)))
        beat_below == HalfPower(Len(SelectSeq(notehead.flags_and_beams, IsBelow)))
        modifier == compute_duration_modifier(notehead)
    IN  IF Len(notehead.flags_and_beams) = 0 /\ notehead.class_name = "noteheadFull"
        THEN Returned(<<Fraction(1, 1)>>)
        ELSE IF Len(notehead.flags_and_beams) = 0 /\ notehead.class_name \in NOTEHEADS_EMPTY
        THEN Returned(<<Fraction(2, 1)>>)
        ELSE IF notehead.class_name \in NOTEHEADS_EMPTY THEN Raised
        ELSE IF beat_above # beat_below THEN Raised
        ELSE IF Len(notehead.tuples) % 2 # 0 THEN Raised
        ELSE IF modifier.raised THEN Raised
        ELSE Returned(<<Times(beat_above, modifier.value)>>)

\* A slip of the empty noteheads: the stem is not looked at.
empty_notehead_beat_Half(stems) == Fraction(2, 1)

\* notehead_beats, lines 128-131: a half note has a stem, a whole note has none
empty_notehead_beat(stems) == IF stems = 0 THEN Fraction(4, 1) ELSE Fraction(2, 1)

\* notehead_beats, lines 102-141: the list `beat` before the modifiers
notehead_base_beats(notehead) ==
    IF notehead.class_name \in GRACE_NOTEHEAD_CLASS_NAMES
    THEN Returned(<<Fraction(0, 1)>>)
    ELSE IF notehead.stems > 1 THEN process_multistem_notehead(notehead)
    ELSE IF notehead.class_name \in NOTEHEADS_EMPTY
    THEN IF Len(notehead.flags_and_beams) # 0 THEN Raised
         ELSE Returned(<<empty_notehead_beat(notehead.stems)>>)
    ELSE IF notehead.class_name = "noteheadFull"
    THEN IF notehead.stems = 0 /\ strategy_raises THEN Raised
         ELSE Returned(<<HalfPower(Len(notehead.flags_and_beams))>>)
    ELSE Raised

\* what a method makes of a list of durations: it multiplies the first one by
\* the modifier, unless the modifiers are ignored
Modified(base, node, ignore) ==
    LET modifier == compute_duration_modifier(node)
    IN  IF base.raised THEN Raised
        ELSE IF ignore THEN Returned(base.value[1])
        ELSE IF modifier.raised THEN Raised
        ELSE Returned(Times(base.value[1], modifier.value))

\* notehead_beats(notehead, ignore_modifiers), lines 81-150
notehead_beats(notehead, ignore) == Modified(notehead_base_beats(notehead), notehead, ignore)

\* rest_beats(rest, ignore_modifiers), lines 240-283; measure_lasting_beats
\* (lines 296-302) returns 4 for a rest that is attached to no staff
rest_beats(rest, ignore) ==
    IF rest.class_name \in MEASURE_LASTING_CLASS_NAMES /\ ~ignore
    THEN Returned(Times(Fraction(4, 1),
                        CASE rest.class_name = "rest_breve" -> Fraction(2, 1)
                          [] rest.class_name = "rest_longa" -> Fraction(4, 1)
                          [] OTHER -> Fraction(1, 1)))
    ELSE Modified(Returned(<<rest_name_to_duration[rest.class_name]>>), rest, ignore)

\* beats(node, ignore_modifiers), lines 69-79
beats(node, ignore) ==
    IF node.class_name \in NOTEHEAD_CLASS_NAMES THEN notehead_beats(node, ignore)
    ELSE IF node.class_name \in REST_CLASS_NAMES THEN rest_beats(node, ignore)
    ELSE Raised

\* the symbols of the specification: the tuples carry a number, or none and
\* then 3 or 1 noteheads
TupleShapes ==
    {[numerals |-> d, noteheads |-> 3] :
        d \in {<<>>, <<2>>, <<3>>, <<4>>, <<5>>, <<6>>, <<7>>, <<8>>, <<1, 0>>, <<1, 2>>}}
    \cup {[numerals |-> <<>>, noteheads |-> 1]}

DurationSymbols ==
    [class_name : {"noteheadFull", "noteheadHalf", "noteheadWhole",
                   "noteheadFullSmall", "restQuarter", "rest8th", "restWhole", "stem"},
     stems : 0..MaxStems,
     flags_and_beams : UNION {[1..n -> BOOLEAN] : n \in 0..MaxFlags},
     tuples : {<<>>} \cup {<<t>> : t \in TupleShapes}
                  \cup {<<[numerals |-> <<3>>, noteheads |-> 3],
                          [numerals |-> <<3>>, noteheads |-> 3]>>},
     ddots : 0..MaxDots]

\* an OnsetsInferenceEngine over the graph of one symbol and its children
InitBeats ==
    /\ vertices = {}
    /\ inlinks = <<>>
    /\ outlinks = <<>>
    /\ precedence_inlinks = <<>>
    /\ precedence_outlinks = <<>>
    /\ class_name = <<>>
    /\ call = [op |-> "init", raised |-> FALSE]
    /\ OnsetsIdle
    /\ TiesIdle
    /\ PitchStateNew
    /\ SweepIdle
    /\ TimeSigIdle
    /\ CallIdle
    /\ strategy_permissive \in BOOLEAN
    /\ symbol \in DurationSymbols
    /\ ignore_modifiers \in BOOLEAN
    /\ duration_modifier = <<>>
    /\ beat = <<>>

\* the two methods read the graph and change nothing
BeatsFrame ==
    UNCHANGED <<vertices, inlinks, outlinks, precedence_inlinks,
                precedence_outlinks, class_name, onsetVars, tieVars, pitchVars,
                sweepVars, timeSigVars, callVars, strategy_permissive, symbol,
                ignore_modifiers>>

ComputeDurationModifierCall ==
    /\ call.op = "init"
    /\ call' = [op |-> "_compute_duration_modifier",
                raised |-> compute_duration_modifier(symbol).raised]
    /\ duration_modifier' = compute_duration_modifier(symbol).value
    /\ beat' = beat
    /\ BeatsFrame

BeatsCall ==
    /\ call.op # "beats"
    /\ call' = [op |-> "beats", raised |-> beats(symbol, ignore_modifiers).raised]
    /\ beat' = beats(symbol, ignore_modifiers).value
    /\ duration_modifier' = duration_modifier
    /\ BeatsFrame

NextBeats ==
    \/ ComputeDurationModifierCall
    \/ BeatsCall

SpecBeats == InitBeats /\ [][NextBeats]_vars

\* ------------------------------------------------ the time signatures
\* A child of a time signature is a record of its class_name and of its
\* bounding box (top, bottom, left; the right side is not read).
TIME_SIGNATURE_MEMBERS ==
    {"timeSigCommon", "timeSigCutCommon", "numeral0", "numeral1", "numeral2",
     "numeral3", "numeral4", "numeral5", "numeral6", "numeral7", "numeral8",
     "numeral9"}

NUMERALS == TIME_SIGNATURE_MEMBERS \ {"timeSigCommon", "timeSigCutCommon"}

LETTER_OTHER == "characterOther"

\* Numerals.interpret, constants.py 135-146: the digit of a numeral
numeral_to_digit ==
    [c \in NUMERALS |->
        CASE c = "numeral0" -> 0 [] c = "numeral1" -> 1 [] c = "numeral2" -> 2
          [] c = "numeral3" -> 3 [] c = "numeral4" -> 4 [] c = "numeral5" -> 5
          [] c = "numeral6" -> 6 [] c = "numeral7" -> 7 [] c = "numeral8" -> 8
          [] c = "numeral9" -> 9]

\* sorted(list, key=...): keys[i] is the key of list[i]; equal keys keep their
\* order
RECURSIVE sorted(_, _)
sorted(list, keys) ==
    IF list = <<>> THEN <<>>
    ELSE LET n == Len(list)
             least == CHOOSE i \in 1..n :
                          \A j \in 1..n : keys[i] < keys[j] \/ (keys[i] = keys[j] /\ i <= j)
             others == [k \in 1..(n - 1) |-> IF k < least THEN list[k] ELSE list[k + 1]]
             other_keys == [k \in 1..(n - 1) |-> IF k < least THEN keys[k] ELSE keys[k + 1]]
         IN  <<list[least]>> \o sorted(others, other_keys)

\* sorted(nodes, key=lambda x: x.top)
sorted_by_top(nodes) == sorted(nodes, [i \in 1..Len(nodes) |-> nodes[i].top])

\* NotationGraph.children with a class filter, on the list of the children
children_of_class(nodes, class_filter) ==
    LET Kept(m) == m.class_name \in class_filter
    IN  SelectSeq(nodes, Kept)

\* interpret_numerals: the numerals read from left to right (every node given
\* to it is a numeral)
interpret_numerals(numerals) ==
    LET left_to_right == sorted(numerals, [i \in 1..Len(numerals) |-> numerals[i].left])
    IN  interpret([i \in 1..Len(numerals) |-> numeral_to_digit[left_to_right[i].class_name]])

\* bounding_box_dice_coefficient of two members, as the vertical Dice overlap
\* of their boxes: twice the height they share over the sum of their heights
bounding_box_dice_coefficient(m1, m2) ==
    LET low == IF m1.bottom < m2.bottom THEN m1.bottom ELSE m2.bottom
        high == IF m1.top > m2.top THEN m1.top ELSE m2.top
        shared == IF low > high THEN low - high ELSE 0
    IN  Fraction(2 * shared, (m1.bottom - m1.top) + (m2.bottom - m2.top))

\* x < y for two fractions
Less(x, y) == x[1] * y[2] < y[1] * x[2]

\* _DEFAULT_FRACTIONAL_VERTICAL_IOU_THRESHOLD, 0.8
DEFAULT_FRACTIONAL_VERTICAL_IOU_THRESHOLD == Fraction(4, 5)

\* interpret_time_signature, lines 1224-1232: twice the gaps between the
\* numerals consecutive in the order of their centres
gaps(numerals_topdown) ==
    [i \in 1..(Len(numerals_topdown) - 1) |->
        LET c1 == numerals_topdown[i]
            c2 == numerals_topdown[i + 1]
        IN  (c2.bottom + c2.top) - (c1.bottom + c2.top)]

\* interpret_time_signature(time_signature, fractional_vertical_iou_threshold)
interpret_time_signature(nodes, threshold) ==
    LET members == sorted_by_top(children_of_class(nodes, TIME_SIGNATURE_MEMBERS))
        IsCommon(m) == m.class_name \in {"timeSigCommon", "timeSigCutCommon"}
        IsLetterOther(m) == m.class_name = LETTER_OTHER
        has_letter_other == Len(SelectSeq(members, IsLetterOther)) > 0
        OverlapsOf(i) ==
            {bounding_box_dice_coefficient(members[i], members[j]) : j \in i..Len(members)}
        overlaps == UNION {OverlapsOf(i) : i \in 1..(Len(members) - 1)}
        min_overlap_below == \E x \in overlaps : Less(x, threshold)
        numerals == sorted_by_top(children_of_class(nodes, NUMERALS))
        numerals_topdown ==
            sorted(numerals, [i \in 1..Len(numerals) |-> numerals[i].top + numerals[i].bottom])
        the_gaps == gaps(numerals_topdown)
        largest_gap_idx ==
            1 + CHOOSE i \in DOMAIN the_gaps :
                    \A j \in DOMAIN the_gaps :
                        the_gaps[i] > the_gaps[j] \/ (the_gaps[i] = the_gaps[j] /\ i <= j)
        numerator == SubSeq(numerals, 1, largest_gap_idx - 1)
        denominator == SubSeq(numerals, largest_gap_idx, Len(numerals))
        beat_count == interpret_numerals(numerator)
        beat_units == interpret_numerals(denominator)
        whole_count ==
            IF numerals = <<>> THEN Raised
            ELSE Returned(Fraction(interpret_numerals(numerals), 1))
        fraction ==
            IF beat_units = 0 THEN Raised
            ELSE Returned(Fraction(beat_count * 4, beat_units))
    IN  IF members = <<>> THEN Raised
        ELSE IF \E i \in DOMAIN members : IsCommon(members[i])
        THEN Returned(Fraction(4, 1))
        ELSE IF has_letter_other THEN fraction
        ELSE IF Len(members) < 2 THEN whole_count
        ELSE IF threshold = <<>> THEN Raised
        ELSE IF min_overlap_below THEN fraction
        ELSE whole_count

\* the children a time signature of the model has: two numerals in three boxes
\* at two places from the left, the two letters, and a child that is no member
MemberShapes ==
    [class_name : {"numeral3", "numeral4"},
     box : {<<0, 4>>, <<4, 5>>, <<5, 7>>},
     left : {0, 1}]
    \cup [class_name : {"timeSigCommon", "timeSigCutCommon", LETTER_OTHER},
          box : {<<0, 4>>},
          left : {0}]

Member(shape) ==
    [class_name |-> shape.class_name, top |-> shape.box[1], bottom |-> shape.box[2],
     left |-> shape.left]

\* an OnsetsInferenceEngine and a time signature with its children
InitTimeSig ==
    /\ vertices = {}
    /\ inlinks = <<>>
    /\ outlinks = <<>>
    /\ precedence_inlinks = <<>>
    /\ precedence_outlinks = <<>>
    /\ class_name = <<>>
    /\ call = [op |-> "init", raised |-> FALSE]
    /\ OnsetsIdle
    /\ TiesIdle
    /\ PitchStateNew
    /\ SweepIdle
    /\ BeatsIdle
    /\ CallIdle
    /\ \E n \in 0..MaxMembers : \E shapes \in [1..n -> MemberShapes] :
           time_signature = [i \in 1..n |-> Member(shapes[i])]
    /\ fractional_vertical_iou_threshold \in {<<>>, DEFAULT_FRACTIONAL_VERTICAL_IOU_THRESHOLD}
    /\ measure_beats = <<>>

\* interpret_time_signature reads the graph and changes nothing
InterpretTimeSignature ==
    /\ call.op = "init"
    /\ LET result == interpret_time_signature(time_signature,
                                              fractional_vertical_iou_threshold)
       IN  /\ call' = [op |-> "interpret_time_signature", raised |-> result.raised]
           /\ measure_beats' = result.value
    /\ UNCHANGED <<vertices, inlinks, outlinks, precedence_inlinks,
                   precedence_outlinks, class_name, onsetVars, tieVars, pitchVars,
                   sweepVars, beatsVars, callVars, time_signature,
                   fractional_vertical_iou_threshold>>

NextTimeSig == InterpretTimeSignature

SpecTimeSig == InitTimeSig /\ [][NextTimeSig]_vars

\* ------------------------------------------- descendants and ancestors
\* class_filter=None: every class passes
NoFilter == GraphClasses

\* descendants, lines 216-228: the queue holds node_id; each node taken from it
\* is recorded (but node_id) and its children are put on the queue unless
\* `child_id not in queue` finds them there. queue is a queue.Queue, which
\* supports no `in`: the test raises TypeError at the first child.
RECURSIVE descendants_loop(_, _, _, _, _)
descendants_loop(st, node_id, class_filter, pending, descendant_ids) ==
    IF pending = <<>> THEN Returned(descendant_ids)
    ELSE LET current_node_id == Head(pending)
             ids == IF current_node_id # node_id
                    THEN Append(descendant_ids, current_node_id)
                    ELSE descendant_ids
         IN  IF current_node_id \notin st.vertices THEN Raised
             ELSE IF children(st, current_node_id, class_filter) # <<>> THEN Raised
             ELSE descendants_loop(st, node_id, class_filter, Tail(pending), ids)

descendants(st, node_id, class_filter) ==
    descendants_loop(st, node_id, class_filter, <<node_id>>, <<>>)

\* ancestors, lines 248-250: a parent is put on the queue unless it is in
\* queue.queue, the entries not yet taken
RECURSIVE put_parents(_, _)
put_parents(pending, parent_node_ids) ==
    IF parent_node_ids = <<>> THEN pending
    ELSE put_parents(IF In(Head(parent_node_ids), pending) THEN pending
                     ELSE Append(pending, Head(parent_node_ids)),
                     Tail(parent_node_ids))

\* ancestors, lines 242-252; visits is the number of queue entries still
\* followed: when it is used up the loop has not ended and nothing is returned
RECURSIVE ancestors_loop(_, _, _, _, _, _)
ancestors_loop(st, node_id, class_filter, pending, ancestor_node_ids, visits) ==
    IF pending = <<>> THEN [raised |-> FALSE, running |-> FALSE, value |-> ancestor_node_ids]
    ELSE IF visits = 0 THEN [raised |-> FALSE, running |-> TRUE, value |-> <<>>]
    ELSE LET current_node_id == Head(pending)
             ids == IF current_node_id # node_id
                    THEN Append(ancestor_node_ids, current_node_id)
                    ELSE ancestor_node_ids
         IN  IF current_node_id \notin st.vertices
             THEN [raised |-> TRUE, running |-> FALSE, value |-> <<>>]
             ELSE ancestors_loop(st, node_id, class_filter,
                                 put_parents(Tail(pending),
                                             parents(st, current_node_id, class_filter)),
                                 ids, visits - 1)

ancestors(st, node_id, class_filter) ==
    ancestors_loop(st, node_id, class_filter, <<node_id>>, <<>>, MaxVisits)

\* the graph after add_edge for each of the edges, in their order
RECURSIVE AddEdges(_, _)
AddEdges(st, edges) ==
    IF edges = <<>> THEN st
    ELSE AddEdges(add_edge(st, Head(edges)[1], Head(edges)[2]), Tail(edges))

\* NotationGraph(nodes) over nodes joined by up to MaxEdges attachment edges
InitReach ==
    /\ vertices = NodeIds
    /\ \E k \in 0..MaxEdges : \E edges \in [1..k -> NodeIds \X NodeIds] :
           LET st == AddEdges([vertices |-> NodeIds, inlinks |-> NoLinks,
                               outlinks |-> NoLinks, precedence_inlinks |-> NoLinks,
                               precedence_outlinks |-> NoLinks, raised |-> FALSE],
                              edges)
           IN  /\ inlinks = st.inlinks
               /\ outlinks = st.outlinks
    /\ precedence_inlinks = NoLinks
    /\ precedence_outlinks = NoLinks
    /\ class_name = [n \in NodeIds |-> IF n = 1 THEN "noteheadFull" ELSE "stem"]
    /\ call = [op |-> "init", raised |-> FALSE]
    /\ OnsetsIdle
    /\ TiesIdle
    /\ PitchStateNew
    /\ SweepIdle
    /\ BeatsIdle
    /\ TimeSigIdle
    /\ CallIdle

\* the functions below read the graph and change nothing
ReadFrame ==
    UNCHANGED <<vertices, inlinks, outlinks, precedence_inlinks,
                precedence_outlinks, class_name, onsetVars, tieVars, pitchVars,
                sweepVars, beatsVars, timeSigVars>>

DescendantsCall(node_id, class_filter) ==
    /\ call.op = "init"
    /\ LET result == descendants(GraphState, node_id, class_filter)
       IN  /\ call' = [op |-> "descendants", raised |-> result.raised]
           /\ returned' = IF result.raised THEN <<>> ELSE <<result.value>>
    /\ argument' = [node |-> node_id, class_filter |-> class_filter]
    /\ ReadFrame

Descendants ==
    \E node_id \in NodeIds, class_filter \in {NoFilter, {"stem"}, {"noteheadFull"}} :
        DescendantsCall(node_id, class_filter)

AncestorsCall(node_id, class_filter) ==
    /\ call.op = "init"
    /\ LET result == ancestors(GraphState, node_id, class_filter)
       IN  /\ call' = [op |-> "ancestors", raised |-> result.raised]
           /\ returned' = IF result.raised \/ result.running THEN <<>>
                          ELSE <<result.value>>
    /\ argument' = [node |-> node_id, class_filter |-> class_filter]
    /\ ReadFrame

Ancestors ==
    \E node_id \in NodeIds, class_filter \in {NoFilter, {"stem"}, {"noteheadFull"}} :
        AncestorsCall(node_id, class_filter)

NextReach ==
    \/ Descendants
    \/ Ancestors

SpecReach == InitReach /\ [][NextReach]_vars


\* ------------------------------------- PitchInferenceEngine.staffline_delta
\* The notehead is a record of its bounding box (top, bottom), of whether it
\* has a staff child (has_staff), of the ids of its staffline and staffspace
\* children (staffline_objects, in outlink order) and of the boxes of its
\* leger line children (lls). The staff is a record of its top and of its
\* staffline and staffspace children (records of id, top and bottom, in
\* outlink order).

\* min(lls, key=lambda x: (x.top - notehead.top) ** 2 + (x.bottom -
\* notehead.bottom) ** 2), lines 652: the first of the closest
closest_ll(notehead) ==
    LET Distance(x) == (x.top - notehead.top) * (x.top - notehead.top)
                       + (x.bottom - notehead.bottom) * (x.bottom - notehead.bottom)
        first == CHOOSE i \in DOMAIN notehead.lls :
                     \A j \in DOMAIN notehead.lls :
                         \/ Distance(notehead.lls[i]) < Distance(notehead.lls[j])
                         \/ (Distance(notehead.lls[i]) = Distance(notehead.lls[j]) /\ i <= j)
    IN  notehead.lls[first]

\* min(dtop, dbottom) / max(dtop, dbottom) < ON_STAFFLINE_RATIO_THRESHOLD,
\* the threshold being 0.2 (constants.py 158)
BelowRatioThreshold(dtop, dbottom) ==
    LET smaller == IF dtop < dbottom THEN dtop ELSE dbottom
        larger == IF dtop < dbottom THEN dbottom ELSE dtop
    IN  5 * smaller < larger

\* lines 657-714: is the notehead on its closest leger line; "strange" when
\* no case applies
on_leger_line(notehead, ll, is_above_staff) ==
    IF ll.top <= notehead.top /\ notehead.top <= notehead.bottom
          /\ notehead.bottom <= ll.bottom
    THEN "on"
    ELSE IF ll.top > notehead.bottom THEN "off"
    ELSE IF notehead.top > ll.bottom THEN "off"
    ELSE IF notehead.top < ll.top /\ ll.top <= ll.bottom /\ ll.bottom < notehead.bottom
    THEN LET dtop == ll.top - notehead.top
             dbottom == notehead.bottom - ll.bottom
         IN  IF BelowRatioThreshold(dtop, dbottom)
             THEN IF (dtop > dbottom /\ ~is_above_staff)
                        \/ (dbottom > dtop /\ is_above_staff)
                  THEN "on" ELSE "off"
             ELSE "on"
    ELSE IF notehead.top < ll.top /\ ll.top <= notehead.bottom
               /\ notehead.bottom <= ll.bottom
    THEN "off"
    ELSE IF ll.top <= notehead.top /\ notehead.top <= ll.bottom
               /\ ll.bottom < notehead.bottom
    THEN "off"
    ELSE "strange"

\* lines 633-722: the delta of a notehead on leger lines
leger_line_delta(notehead, staff) ==
    LET n_lls == Len(notehead.lls)
        is_above_staff == notehead.top < staff.top
        on == on_leger_line(notehead, closest_ll(notehead), is_above_staff)
        delta == (2 * n_lls - 1) + 5 + (IF on = "on" THEN 0 ELSE 1)
    IN  IF n_lls = 0 THEN Raised
        ELSE IF on = "strange" THEN Raised
        ELSE Returned(IF is_above_staff THEN delta ELSE -1 * delta)

\* A slip of the ordering: the stafflines are taken in the order of the
\* outlinks of the staff.
sorted_staffline_objects_Unsorted(all_staffline_objects) == all_staffline_objects

\* sorted(all_staffline_objects, key=lambda x: (x.top + x.bottom) / 2.)
sorted_staffline_objects(all_staffline_objects) ==
    sorted(all_staffline_objects,
           [i \in DOMAIN all_staffline_objects |->
               all_staffline_objects[i].top + all_staffline_objects[i].bottom])

\* lines 724-757: the delta of a notehead on one staffline or staffspace
single_staffline_delta(notehead, staff) ==
    LET current_staffline == notehead.staffline_objects[1]
        objects == sorted_staffline_objects(staff.children)
        found == {i \in DOMAIN objects : objects[i].id = current_staffline}
    IN  IF found = {} THEN Raised
        ELSE Returned(5 - ((CHOOSE i \in found : \A j \in found : j <= i) - 1))

\* staffline_delta(notehead), lines 621-761, on the notehead and its staff
staffline_delta_on_staff(notehead, staff) ==
    IF ~notehead.has_staff THEN Raised
    ELSE IF Len(notehead.staffline_objects) = 0 THEN leger_line_delta(notehead, staff)
    ELSE IF Len(notehead.staffline_objects) = 1
    THEN single_staffline_delta(notehead, staff)
    ELSE Raised

\* the staves of the specification: objects 1, 2, ... from the top, ten
\* apart and five high, listed by the staff top to bottom, bottom to top or
\* from the second down with the first last
StaffChildren(n) ==
    LET Object(i) == [id |-> i, top |-> 10 * (i - 1), bottom |-> 10 * (i - 1) + 5]
    IN  {[i \in 1..n |-> Object(i)],
         [i \in 1..n |-> Object(n + 1 - i)],
         [i \in 1..n |-> Object((i % n) + 1)]}

\* the leger lines of a notehead, ten high, whose top is given: above it,
\* below it, around it, inside it near its top, in its middle or near its
\* bottom, and across its top or its bottom
LegerLineBoxes(top) ==
    {[top |-> top + place[1], bottom |-> top + place[1] + place[2]] :
        place \in {<<-14, 1>>, <<12, 1>>, <<0, 14>>, <<1, 1>>, <<4, 2>>, <<8, 1>>,
                   <<-14, 14>>, <<0, 1>>, <<8, 2>>}}

\* the noteheads on leger lines: ten high, above or below the staff
NoteheadsOnLegerLines ==
    UNION {[top : {top}, bottom : {top + 10}, has_staff : {TRUE},
            staffline_objects : {<<>>},
            lls : UNION {[1..k -> LegerLineBoxes(top)] : k \in 0..MaxLegerLines}] :
           top \in {-30, 10 * MaxStaffObjects + 20}}

\* the noteheads in a staff of n objects: on none of them, on one of them or
\* on one of another staff (id 0), or on two
NoteheadsOn(n) ==
    [top : {20}, bottom : {30}, has_staff : BOOLEAN,
     staffline_objects : {<<>>} \cup [1..1 -> 0..n] \cup [1..2 -> {0, 1, n}],
     lls : {<<>>, <<[top |-> 20, bottom |-> 22]>>}]

StafflineInputs ==
    [notehead : NoteheadsOnLegerLines,
     staff : [top : {0}, children : {CHOOSE c \in StaffChildren(MaxStaffObjects) : TRUE}]]
    \cup UNION {[notehead : NoteheadsOn(n),
                 staff : [top : {0}, children : StaffChildren(n)]] :
                n \in 1..MaxStaffObjects}

InitStaffline ==
    /\ vertices = {}
    /\ inlinks = <<>>
    /\ outlinks = <<>>
    /\ precedence_inlinks = <<>>
    /\ precedence_outlinks = <<>>
    /\ class_name = <<>>
    /\ call = [op |-> "init", raised |-> FALSE]
    /\ OnsetsIdle
    /\ TiesIdle
    /\ PitchStateNew
    /\ LaterIdle

StafflineDeltaCall(input) ==
    /\ call.op = "init"
    /\ LET result == staffline_delta_on_staff(input.notehead, input.staff)
       IN  /\ call' = [op |-> "staffline_delta", raised |-> result.raised]
           /\ returned' = IF result.raised THEN <<>> ELSE <<result.value>>
    /\ argument' = input
    /\ ReadFrame

StafflineDelta == \E input \in StafflineInputs : StafflineDeltaCall(input)

NextStaffline == StafflineDelta

SpecStaffline == InitStaffline /\ [][NextStaffline]_vars

\* ------------------------------------------ resolve_notehead_wrt_staffline
\* A slip of the interlaced cases: a notehead that only touches the line
\* with its last row, or its first, fits no case.
resolve_notehead_wrt_staffline_Strict(notehead, ll) ==
    IF ll.top <= notehead.top /\ notehead.top <= notehead.bottom
          /\ notehead.bottom <= ll.bottom
    THEN [position |-> 0, case |-> "inside"]
    ELSE IF ll.top > notehead.bottom THEN [position |-> 1, case |-> "above"]
    ELSE IF notehead.top > ll.bottom THEN [position |-> -1, case |-> "below"]
    ELSE IF notehead.top < ll.top /\ ll.top <= ll.bottom /\ ll.bottom < notehead.bottom
    THEN [position |-> 0, case |-> "around"]
    ELSE IF notehead.top < ll.top /\ ll.top < notehead.bottom
               /\ notehead.bottom <= ll.bottom
    THEN [position |-> 1, case |-> "notehead on top"]
    ELSE IF ll.top <= notehead.top /\ notehead.top < ll.bottom
               /\ ll.bottom < notehead.bottom
    THEN [position |-> -1, case |-> "line on top"]
    ELSE [position |-> 0, case |-> "strange"]

\* resolve_notehead_wrt_staffline(notehead, staffline_or_leger_line),
\* graph.py 1139-1193: the position, and the branch that gave it
resolve_notehead_wrt_staffline(notehead, ll) ==
    IF ll.top <= notehead.top /\ notehead.top <= notehead.bottom
          /\ notehead.bottom <= ll.bottom
    THEN [position |-> 0, case |-> "inside"]
    ELSE IF ll.top > notehead.bottom THEN [position |-> 1, case |-> "above"]
    ELSE IF notehead.top > ll.bottom THEN [position |-> -1, case |-> "below"]
    ELSE IF notehead.top < ll.top /\ ll.top <= ll.bottom /\ ll.bottom < notehead.bottom
    THEN LET dtop == ll.top - notehead.top
             dbottom == notehead.bottom - ll.bottom
         IN  [position |-> IF BelowRatioThreshold(dtop, dbottom)
                           THEN IF dtop > dbottom THEN 1 ELSE -1
                           ELSE 0,
              case |-> "around"]
    ELSE IF notehead.top < ll.top /\ ll.top <= notehead.bottom
               /\ notehead.bottom <= ll.bottom
    THEN [position |-> 1, case |-> "notehead on top"]
    ELSE IF ll.top <= notehead.top /\ notehead.top <= ll.bottom
               /\ ll.bottom < notehead.bottom
    THEN [position |-> -1, case |-> "line on top"]
    ELSE [position |-> 0, case |-> "strange"]

\* the bounding boxes with integer rows 0..MaxRow and top <= bottom
Boxes == {b \in [top : 0..MaxRow, bottom : 0..MaxRow] : b.top <= b.bottom}

ResolveNoteheadCall(notehead, ll) ==
    /\ call.op = "init"
    /\ call' = [op |-> "resolve_notehead_wrt_staffline", raised |-> FALSE]
    /\ argument' = [notehead |-> notehead, ll |-> ll]
    /\ returned' = <<resolve_notehead_wrt_staffline(notehead, ll)>>
    /\ ReadFrame

ResolveNotehead == \E notehead \in Boxes, ll \in Boxes : ResolveNoteheadCall(notehead, ll)

\* staffline_delta of a notehead attached to a staff and to one leger line,
\* the staff beginning below the top of the notehead or not
BoxInputs ==
    {[notehead |-> [top |-> notehead.top, bottom |-> notehead.bottom,
                    has_staff |-> TRUE, staffline_objects |-> <<>>, lls |-> <<ll>>],
      staff |-> [top |-> staff_top, children |-> <<>>]] :
        notehead \in Boxes, ll \in Boxes, staff_top \in {0, MaxRow + 1}}

StafflineDeltaOfBoxes == \E input \in BoxInputs : StafflineDeltaCall(input)

NextBoxes ==
    \/ ResolveNotehead
    \/ StafflineDeltaOfBoxes

SpecBoxes == InitStaffline /\ [][NextBoxes]_vars

\* ------------------------------------------- group_staffs_into_systems
\* The nodes that group_staffs_into_systems reads: the staffs 1..MaxStaffs,
\* `noteheads` the staffs with a notehead or a rest among their inlinks, and
\* `groups` the staffGrouping and measureSeparator nodes from left to right
\* (no two of them with the same left), each with the staffs among its inlinks
\* and the staffs among its outlinks.
SystemStaffs == 1..MaxStaffs

GroupNodes == [class_name : {"staffGrouping", "measureSeparator"},
               inlinks : SUBSET SystemStaffs,
               outlinks : SUBSET SystemStaffs]

GroupLists == UNION {[1..n -> GroupNodes] : n \in 0..MaxGroups}

SystemInputs == [groups : GroupLists,
                 noteheads : SUBSET SystemStaffs,
                 use_fallback_measure_separators : BOOLEAN,
                 leftmost_measure_separators_only : BOOLEAN]

\* the staffs in ascending order of id, as a sorted list of ids gives them
RECURSIVE StaffList(_)
StaffList(S) ==
    IF S = {} THEN <<>>
    ELSE LET least == CHOOSE s \in S : \A t \in S : s <= t
         IN  <<least>> \o StaffList(S \ {least})

\* the first measure separator, from the left, that has the staff among its
\* outlinks (is_child_of(staff, m)); {} when there is none
leftmost_measure_separator(input, staff) ==
    LET with_staff == {m \in DOMAIN input.groups :
                          /\ input.groups[m].class_name = "measureSeparator"
                          /\ staff \in input.groups[m].outlinks}
    IN  IF with_staff = {} THEN {}
        ELSE {CHOOSE m \in with_staff : \A other \in with_staff : m <= other}

\* staff_groups: the staffGrouping nodes, and with
\* use_fallback_measure_separators the measure separators, all of them or the
\* leftmost one of every staff that is not empty
staff_groups(input) ==
    LET groupings == {g \in DOMAIN input.groups :
                         input.groups[g].class_name = "staffGrouping"}
        measure_separators == {m \in DOMAIN input.groups :
                                  input.groups[m].class_name = "measureSeparator"}
    IN  IF ~input.use_fallback_measure_separators THEN groupings
        ELSE IF input.leftmost_measure_separators_only
        THEN groupings \cup UNION {leftmost_measure_separator(input, staff) :
                                      staff \in input.noteheads}
        ELSE groupings \cup measure_separators

\* staffs_per_group: the staffs among the inlinks of the group
staffs_per_group(input, g) == input.groups[g].inlinks

is_outer_SubsetOnly(input, outer_staff_groups, staff_group) ==
    \A other_sg \in staff_groups(input) \ {staff_group} :
        ~(staffs_per_group(input, staff_group) \subseteq staffs_per_group(input, other_sg))

\* is_outer after the loop over the other groups: no other group holds all
\* the staffs of this one, unless it holds exactly these and is not itself
\* among the outer groups found so far
is_outer(input, outer_staff_groups, staff_group) ==
    \A other_sg \in staff_groups(input) \ {staff_group} :
        LET sg_staffs == staffs_per_group(input, staff_group)
            other_sg_staffs == staffs_per_group(input, other_sg)
        IN  IF sg_staffs \subseteq other_sg_staffs
            THEN /\ sg_staffs = other_sg_staffs
                 /\ \A k \in DOMAIN outer_staff_groups : outer_staff_groups[k] # other_sg
            ELSE TRUE

\* the loop over the groups from left to right, from group g on
RECURSIVE OuterStaffGroupsFrom(_, _, _)
OuterStaffGroupsFrom(input, outer_staff_groups, g) ==
    IF g > Len(input.groups) THEN outer_staff_groups
    ELSE IF g \in staff_groups(input) /\ is_outer(input, outer_staff_groups, g)
    THEN OuterStaffGroupsFrom(input, Append(outer_staff_groups, g), g + 1)
    ELSE OuterStaffGroupsFrom(input, outer_staff_groups, g + 1)

outer_staff_groups_of(input) == OuterStaffGroupsFrom(input, <<>>, 1)

\* the systems returned, each the list of the ids of its staffs
group_staffs_into_systems(input) ==
    IF staff_groups(input) # {}
    THEN LET outer == outer_staff_groups_of(input)
         IN  [k \in DOMAIN outer |-> StaffList(input.groups[outer[k]].inlinks)]
    ELSE LET single == StaffList(input.noteheads)
         IN  [k \in DOMAIN single |-> <<single[k]>>]

\* the nodes handed over are in `argument`
InitSystems ==
    /\ vertices = {}
    /\ inlinks = <<>>
    /\ outlinks = <<>>
    /\ precedence_inlinks = <<>>
    /\ precedence_outlinks = <<>>
    /\ class_name = <<>>
    /\ call = [op |-> "init", raised |-> FALSE]
    /\ OnsetsIdle
    /\ TiesIdle
    /\ PitchStateNew
    /\ SweepIdle
    /\ BeatsIdle
    /\ TimeSigIdle
    /\ argument \in SystemInputs
    /\ returned = <<>>

GroupStaffsIntoSystemsCall ==
    /\ call.op = "init"
    /\ call' = [op |-> "group_staffs_into_systems", raised |-> FALSE]
    /\ returned' = <<group_staffs_into_systems(argument)>>
    /\ UNCHANGED argument
    /\ ReadFrame

NextSystems == GroupStaffsIntoSystemsCall

SpecSystems == InitSystems /\ [][NextSystems]_vars

\* ------------------------------- _infer_precedence_from_annotations: chains
\* What the chaining reads: `systems` as group_staffs_into_systems returned
\* them (lists of staffs, a staff being named by its top), for every
\* precedence node its precedence lists and `staff` the first staff among its
\* children (0 when it has none), and the strategy's
\* link_sinks_to_sources_at_ends_and_starts_of_systems.
\* Up to MaxLinks precedence edges are annotated.
ChainStaffs == 1..MaxSystems

ChainNodes == 1..NumPrecedenceNodes

\* the lists of n different staffs
StaffLists(n) ==
    {system \in [1..n -> ChainStaffs] :
        \A i \in 1..n : \A j \in 1..n : system[i] = system[j] => i = j}

\* up to MaxSystems systems of the same number of staffs, one to MaxStaffs
\* (systems of different numbers of staffs are in SpecOnsetsSystems)
EqualSystems ==
    UNION {[1..k -> StaffLists(n)] : k \in 0..MaxSystems, n \in 1..MaxStaffs}

\* the precedence lists of the nodes, from the edges annotated
ChainLinks(E) ==
    [outlinks |-> [n \in ChainNodes |-> Ascending({b \in ChainNodes : <<n, b>> \in E})],
     inlinks |-> [n \in ChainNodes |-> Ascending({a \in ChainNodes : <<a, n>> \in E})]]

RECURSIVE ConcatLists(_)
ConcatLists(lists) ==
    IF lists = <<>> THEN <<>> ELSE Head(lists) \o ConcatLists(Tail(lists))

sorted_chain_Unsorted(staff_chain) == staff_chain

\* sorted(staff_chain, key=lambda x: x.top)
sorted_chain(staff_chain) == sorted(staff_chain, staff_chain)

\* staff_chains: the i-th staffs of the systems, for every i up to the
\* number of staffs of the first system
staff_chains(systems) ==
    [i \in DOMAIN systems[1] |-> [k \in DOMAIN systems |-> systems[k][i]]]

\* the pairs (s1, s2) the linking loop goes through, in its order
ChainPairs(systems) ==
    ConcatLists([i \in DOMAIN staff_chains(systems) |->
        LET staffs == sorted_chain(staff_chains(systems)[i])
        IN  [j \in 1..(Len(staffs) - 1) |-> <<staffs[j], staffs[j + 1]>>]])

\* staff2sink_nodes[s] and staff2source_nodes[s], in the order of p_nodes
staff2sink_nodes(input, s) ==
    Ascending({n \in ChainNodes : input.outlinks[n] = <<>> /\ input.staff[n] = s})

staff2source_nodes(input, s) ==
    Ascending({n \in ChainNodes : input.inlinks[n] = <<>> /\ input.staff[n] = s})

\* a sink or a source without a staff: children(...)[0] raises IndexError
NoStaffAtEnd(input) ==
    \E n \in ChainNodes :
        /\ input.staff[n] = 0
        /\ (input.outlinks[n] = <<>> \/ input.inlinks[n] = <<>>)

\* the precedence lists after the linking loop: what the pairs append
LinkedOutlinks(input, pairs, n) ==
    input.outlinks[n] \o
    ConcatLists([k \in DOMAIN pairs |->
        IF input.outlinks[n] = <<>> /\ input.staff[n] = pairs[k][1]
        THEN staff2source_nodes(input, pairs[k][2]) ELSE <<>>])

LinkedInlinks(input, pairs, n) ==
    input.inlinks[n] \o
    ConcatLists([k \in DOMAIN pairs |->
        IF input.inlinks[n] = <<>> /\ input.staff[n] = pairs[k][2]
        THEN staff2sink_nodes(input, pairs[k][1]) ELSE <<>>])

\* the nodes without inlinks, in the order of p_nodes
SourcesOf(node_inlinks) == Ascending({n \in ChainNodes : node_inlinks[n] = <<>>})

\* lines 436-522: the lists of the precedence nodes and the source nodes
\* returned, or raised
infer_precedence_from_annotations(input) ==
    LET outcome == systems_outcome([k \in DOMAIN input.systems |-> Len(input.systems[k])],
                                   input.link_sinks_to_sources)
    IN  IF outcome = "sources"
        THEN [raised |-> FALSE, inlinks |-> input.inlinks, outlinks |-> input.outlinks,
              source_nodes |-> SourcesOf(input.inlinks)]
        ELSE IF outcome = "raised" \/ NoStaffAtEnd(input)
        THEN [raised |-> TRUE, inlinks |-> input.inlinks, outlinks |-> input.outlinks,
              source_nodes |-> <<>>]
        ELSE LET pairs == ChainPairs(input.systems)
                 linked == [n \in ChainNodes |-> LinkedInlinks(input, pairs, n)]
             IN  [raised |-> FALSE, inlinks |-> linked,
                  outlinks |-> [n \in ChainNodes |-> LinkedOutlinks(input, pairs, n)],
                  source_nodes |-> SourcesOf(linked)]

InitChains ==
    /\ vertices = {}
    /\ inlinks = <<>>
    /\ outlinks = <<>>
    /\ precedence_inlinks = <<>>
    /\ precedence_outlinks = <<>>
    /\ class_name = <<>>
    /\ call = [op |-> "init", raised |-> FALSE]
    /\ OnsetsIdle
    /\ TiesIdle
    /\ PitchStateNew
    /\ SweepIdle
    /\ BeatsIdle
    /\ TimeSigIdle
    /\ \E systems \in EqualSystems :
       \E staff \in [ChainNodes -> {0} \cup ChainStaffs] :
       \E E \in {F \in SUBSET ForwardPairs(ChainNodes) : Cardinality(F) <= MaxLinks} :
       \E link_sinks_to_sources \in BOOLEAN :
          argument = [systems |-> systems, staff |-> staff,
                      outlinks |-> ChainLinks(E).outlinks,
                      inlinks |-> ChainLinks(E).inlinks,
                      link_sinks_to_sources |-> link_sinks_to_sources]
    /\ returned = <<>>

InferPrecedenceFromAnnotationsCall ==
    /\ call.op = "init"
    /\ LET result == infer_precedence_from_annotations(argument)
       IN  /\ call' = [op |-> "_infer_precedence_from_annotations",
                       raised |-> result.raised]
           /\ returned' = IF result.raised THEN <<>> ELSE <<result>>
    /\ UNCHANGED argument
    /\ ReadFrame

NextChains == InferPrecedenceFromAnnotationsCall

SpecChains == InitChains /\ [][NextChains]_vars

\* ------------------------------------------------------- claims: the graph
\* b is in a.outlinks iff a is in b.inlinks, for the nodes of the graph
Reciprocal(ids, ins, outs) ==
    \A a \in ids, b \in ids : In(b, outs[a]) <=> In(a, ins[b])

\* C1: from a reciprocal graph, after any sequence of add_edge, remove_edge,
\* remove_edges_for_vertex, remove_vertex and remove_classes calls, failing
\* calls included, b is in a.outlinks iff a is in b.inlinks for all nodes a, b
\* of the graph.
C1_AttachmentReciprocity == Reciprocal(vertices, inlinks, outlinks)

\* a vertex was removed and edges remain between the nodes that are left
C1_Witness ==
    /\ call.op = "remove_vertex"
    /\ ~call.raised
    /\ \E a \in vertices, b \in vertices : a # b /\ In(b, outlinks[a])

\* C2: from a reciprocal graph, after any sequence of add_precedence_edge,
\* remove_precedence_edge and remove_from_precedence calls, b is in
\* a.precedence_outlinks iff a is in b.precedence_inlinks for all nodes a, b.
C2_PrecedenceReciprocity ==
    Reciprocal(vertices, precedence_inlinks, precedence_outlinks)

\* a node was bridged out of the precedence chain and a bridge edge is there
C2_Witness ==
    /\ call.op = "remove_from_precedence"
    /\ ~call.raised
    /\ \E a \in vertices, b \in vertices : a # b /\ In(b, precedence_outlinks[a])

\* C3: after any sequence of the vertex and edge operations, every id in a
\* node's inlinks, outlinks, precedence_inlinks or precedence_outlinks is the
\* id of a node that is in the graph.
C3_NoDanglingReferences ==
    \A n \in vertices :
        Ids(inlinks[n]) \cup Ids(outlinks[n]) \cup Ids(precedence_inlinks[n])
            \cup Ids(precedence_outlinks[n]) \subseteq vertices

\* C4: after remove_from_precedence(X) on a graph with reciprocal precedence
\* lists, every other node that was a precedence predecessor of X has every
\* other node that was a precedence successor of X among its successors, and
\* reciprocally, and X has no precedence inlinks and no precedence outlinks.
C4_PrecedenceBridging ==
    [][\A x \in NodeIds :
          RemoveFromPrecedenceCall(x) =>
              /\ \A p \in Ids(precedence_inlinks[x]) \ {x},
                    d \in Ids(precedence_outlinks[x]) \ {x} :
                     /\ In(d, precedence_outlinks'[p])
                     /\ In(p, precedence_inlinks'[d])
              /\ precedence_inlinks'[x] = <<>>
              /\ precedence_outlinks'[x] = <<>>]_vars

\* ------------------------------------------------------ claims: the onsets
\* the onsets the predecessors of n propose for it
Proposals(n) ==
    {p_onset[p] + duration[p] : p \in Ids(precedence_inlinks[n])}

PredecessorsResolved(n) ==
    \A p \in Ids(precedence_inlinks[n]) : p_onset[p] # None

SetMax(S) == CHOOSE x \in S : \A y \in S : x >= y

\* the precedence graph is the chain 1 -> 2 -> ... -> NumPrecedenceNodes
IsChain ==
    \A n \in DOMAIN p_onset :
        precedence_outlinks[n] = IF n < Len(p_onset) THEN <<n + 1>> ELSE <<>>

\* the sum of the durations of the nodes before n in the chain
RECURSIVE ChainOnset(_)
ChainOnset(n) == IF n = 1 THEN 0 ELSE ChainOnset(n - 1) + duration[n - 1]

\* C5: for a linear precedence chain whose only root is its first node,
\* onsets() returns onset 0 for the first node and, for every later node, the
\* onset of the node before it plus that node's duration.
C5_ChainOnsets ==
    (pc = "returned" /\ IsChain) =>
        /\ DOMAIN onsets = DOMAIN p_onset
        /\ \A n \in DOMAIN p_onset : onsets[n] = ChainOnset(n)

\* a chain with different durations was walked to the end
C5_Witness ==
    /\ pc = "returned"
    /\ IsChain
    /\ duration[1] # duration[2]
    /\ onsets[Len(p_onset)] > onsets[2]

\* C6: under the permissive policy a node whose predecessors propose
\* different onsets gets the maximum of predecessor.onset +
\* predecessor.duration over all its predecessors, and it gets an onset only
\* once every predecessor has one.
C6_PermissiveMaximum ==
    permissive_desynchronization =>
        \A n \in DOMAIN p_onset :
            (p_onset[n] # None /\ precedence_inlinks[n] # <<>>) =>
                /\ PredecessorsResolved(n)
                /\ Cardinality(Proposals(n)) > 1 =>
                       /\ p_onset[n] = SetMax(Proposals(n))
                       /\ n \in DOMAIN onsets
                       /\ onsets[n] = SetMax(Proposals(n))

\* a node with disagreeing predecessors was resolved, and not to the first
\* proposal
C6_Witness ==
    /\ permissive_desynchronization
    /\ pc = "returned"
    /\ \E n \in DOMAIN p_onset :
          /\ p_onset[n] # None
          /\ Cardinality(Proposals(n)) > 1
          /\ p_onset[n] # p_onset[precedence_inlinks[n][1]]
                            + duration[precedence_inlinks[n][1]]

\* C7: under the strict policy onsets() raises as soon as the predecessors of
\* a node propose different onsets, and returns no table: no such node is
\* given an onset, the call raises at such a node, and a call that returns
\* has met none.
C7_StrictRaises ==
    ~permissive_desynchronization =>
        /\ \A n \in DOMAIN p_onset :
               (p_onset[n] # None /\ precedence_inlinks[n] # <<>>) =>
                   (PredecessorsResolved(n) /\ Cardinality(Proposals(n)) = 1)
        /\ pc = "raised" =>
               /\ PredecessorsResolved(queue[qstart])
               /\ Cardinality(Proposals(queue[qstart])) > 1
               /\ queue[qstart] \notin DOMAIN onsets
        /\ pc = "returned" =>
               \A n \in DOMAIN p_onset :
                   precedence_inlinks[n] # <<>> => Cardinality(Proposals(n)) = 1

\* the strict walk raised after it had resolved other nodes
C7_Witness ==
    /\ ~permissive_desynchronization
    /\ pc = "raised"
    /\ \E n \in DOMAIN p_onset : precedence_inlinks[n] # <<>> /\ p_onset[n] # None

\* the nodes reachable from S along precedence outlinks, S included
RECURSIVE ReachableFrom(_)
ReachableFrom(S) ==
    LET next == S \cup UNION {Ids(precedence_outlinks[n]) : n \in S}
    IN  IF next = S THEN S ELSE ReachableFrom(next)

Roots == {n \in DOMAIN p_onset : precedence_inlinks[n] = <<>>}

\* how often n stands in the part of the queue that was walked
Visits(n) == Cardinality({i \in 1..qstart : queue[i] = n})

\* C8: on an acyclic reciprocal precedence graph the table onsets() returns
\* has an entry for every node reachable from a root, whatever the depth and
\* however often a node waits for an unresolved predecessor.
C8_ReachableResolved ==
    pc = "returned" => \A n \in ReachableFrom(Roots) : n \in DOMAIN onsets

\* a node that had to wait twice for its predecessors, at the end of a path
\* of three edges, is in the returned table
C8_Witness ==
    /\ pc = "returned"
    /\ \E n \in DOMAIN p_onset :
          /\ Visits(n) = 3
          /\ n \in DOMAIN onsets
          /\ onsets[n] = 3

\* -------------------------------------------------------- claims: the ties
\* the noteheads a tie hangs on
Attached(t) == Ids(inlinks[t])

RECURSIVE SumOver(_, _)
SumOver(table, S) ==
    IF S = {} THEN 0
    ELSE LET n == CHOOSE m \in S : TRUE
         IN  table[n] + SumOver(table, S \ {n})

\* a is the member of C next to the left of its member b
NextInChain(a, b, C) ==
    /\ node_left[a] < node_left[b]
    /\ \A c \in C : ~(node_left[a] < node_left[c] /\ node_left[c] < node_left[b])

\* C is a chain of tied notes: two noteheads or more, onsets increasing left
\* to right, each joined to the next by a tie, and every tie that hangs on a
\* note of C joins two neighbours of the chain and nothing else
IsTieChain(C) ==
    /\ Cardinality(C) >= 2
    /\ \A n \in C : class_name[n] \in TieNoteClasses
    /\ \A a \in C, b \in C : node_left[a] < node_left[b] => onsets[a] < onsets[b]
    /\ \A a \in C, b \in C :
           NextInChain(a, b, C) => \E t \in TieIds : Attached(t) = {a, b}
    /\ \A t \in TieIds :
           Attached(t) \cap C # {} =>
               \E a \in C, b \in C : NextInChain(a, b, C) /\ Attached(t) = {a, b}

LeftmostOf(C) == CHOOSE a \in C : \A b \in C : node_left[a] <= node_left[b]

\* C9: process_ties on a chain of k >= 2 notes joined pairwise by ties, each
\* tie joining exactly two noteheads and the onsets increasing left to right,
\* returns tables in which the leftmost note keeps its onset and has the sum of
\* the k original durations, and in which the other k - 1 notes are keys of
\* neither the onset table nor the duration table.
C9_TiedChain ==
    ties_pc = "returned" =>
        \A C \in SUBSET TieNotes :
            IsTieChain(C) =>
                /\ LeftmostOf(C) \in DOMAIN new_onsets
                /\ new_onsets[LeftmostOf(C)] = onsets[LeftmostOf(C)]
                /\ LeftmostOf(C) \in DOMAIN new_durations
                /\ new_durations[LeftmostOf(C)] = SumOver(durations, C)
                /\ \A n \in C \ {LeftmostOf(C)} :
                       n \notin DOMAIN new_onsets /\ n \notin DOMAIN new_durations

\* a chain of all the notes, of different durations, was merged into its
\* leftmost note
C9_Witness ==
    /\ ties_pc = "returned"
    /\ IsTieChain(TieNotes)
    /\ durations[2] # durations[1]
    /\ DOMAIN new_onsets = {1}
    /\ new_durations[1] = SumOver(durations, TieNotes)

\* -------------------------------------------------------- claims: the pitch
\* the semitone increments of a step table from the reference line up to a step
RECURSIVE StepsUpTo(_, _)
StepsUpTo(table, step) ==
    IF step < 0 THEN 0 ELSE table[step + 1] + StepsUpTo(table, step - 1)

\* the semitones of an accidental, named as a key signature names it or by the
\* class of an accidental node (constants.py 247-253)
SemitoneOffset(kind) ==
    CASE kind \in {"sharp", "accidentalSharp"} -> 1
      [] kind \in {"flat", "accidentalFlat"} -> -1
      [] kind \in {"natural", "accidentalNatural"} -> 0
      [] kind \in {"double_sharp", "accidentalDoubleSharp"} -> 2
      [] kind \in {"double_flat", "accidentalDoubleFlat"} -> -2

\* the accidental in force on a staffline: the inline accidental of the
\* staffline if there is one, else the key accidental of its step
AccidentalInForce(delta) ==
    IF delta \in DOMAIN inline_accidentals
    THEN SemitoneOffset(inline_accidentals[delta])
    ELSE IF delta % 7 \in DOMAIN key_accidentals
    THEN SemitoneOffset(key_accidentals[delta % 7])
    ELSE 0

\* C10: for every clef state and every staffline delta, pitch(delta) is the
\* base pitch + the cumulative semitone increments of the clef's step table up
\* to (delta mod 7) + 12 * (delta div 7) + the accidental offset in force, the
\* delta being the one the clef shift has been applied to; in the default
\* G-clef state with empty key and inline maps pitch(0) = 71, and with a key
\* sharp on the step of delta 0 it is 72.
C10_PitchFormula ==
    call.op = "pitch" =>
        LET delta == pitch_delta + current_clef_delta_shift
        IN  /\ pitch_value = base_pitch
                                 + StepsUpTo(current_delta_steps, delta % 7)
                                 + 12 * (delta \div 7)
                                 + AccidentalInForce(delta)
            /\ (/\ current_clef \in {NoClef, "gClef"}
                /\ delta = 0
                /\ inline_accidentals = <<>>) =>
                   /\ key_accidentals = <<>> => pitch_value = 71
                   /\ (0 \in DOMAIN key_accidentals /\ key_accidentals[0] = "sharp")
                          => pitch_value = 72

\* ----------------------------------------------------- claims: the sweep
\* the notehead at place j carries exactly one inline accidental, is not the
\* right end of a tie, and nothing but noteheads without accidentals on the
\* same staffline and key signatures stand between it and the notehead at i
RegistersFor(j, i) ==
    /\ j <= i
    /\ staff_queue[j].class_name \in NOTEHEAD_CLASS_NAMES
    /\ staff_queue[j].ties = <<>>
    /\ staffline_delta(staff_queue[j]) = staffline_delta(staff_queue[i])
    /\ Len(staff_queue[j].children) = 1
    /\ staff_queue[j].children[1] \in AccidentalClasses
    /\ \A k \in (j + 1)..i :
          \/ staff_queue[k].class_name = "keySignature"
          \/ /\ staff_queue[k].class_name \in NOTEHEAD_CLASS_NAMES
             /\ staff_queue[k].children = <<>>
             /\ staff_queue[k].ties = <<>>

\* C11: in a staff sweep, the pitch computed for a notehead with an attached
\* inline accidental, and for every later notehead on the same staffline before
\* the next measure separator, is the pitch of the staffline plus the semitone
\* offset of that inline accidental, whatever the key signature says of the
\* step.
C11_InlineAccidentalOverride ==
    (call.op = "process_notehead" /\ ~call.raised) =>
        LET i == sweep_pos - 1
            delta == staffline_delta(staff_queue[i]) + current_clef_delta_shift
        IN  \A j \in 1..i :
                RegistersFor(j, i) =>
                    pitches[i] = base_pitch
                                     + StepsUpTo(current_delta_steps, delta % 7)
                                     + 12 * (delta \div 7)
                                     + SemitoneOffset(staff_queue[j].children[1])

\* C12: processing a measure separator leaves the inline-accidental map empty
\* and leaves the key-accidental map, the current clef, the base pitch and the
\* clef shift as they were.
C12_MeasureSeparatorFrame ==
    [][AtSymbol({"measureSeparator"}) =>
           /\ inline_accidentals' = <<>>
           /\ UNCHANGED <<key_accidentals, current_clef, base_pitch,
                          base_pitch_step, base_pitch_octave, current_delta_steps,
                          current_clef_delta_shift>>]_vars

\* a measure separator was processed after a key signature that set a key and
\* a notehead that registered an inline accidental
C12_Witness ==
    /\ call.op = "process_measure_separator"
    /\ sweep_pos = 4
    /\ staff_queue[1].children = <<"sharp">>
    /\ staff_queue[2].children = <<"accidentalSharp">>
    /\ key_accidentals # <<>>
    /\ inline_accidentals = <<>>

\* ------------------------------------------------- claims: the durations
\* 2 - 2^(-n)
DotLaw(n) == <<2 ^ (n + 1) - 1, 2 ^ n>>

\* the classes whose duration is modified by dots and tuples
ModifiedClasses == NOTEHEAD_CLASS_NAMES \cup (REST_CLASS_NAMES \ MEASURE_LASTING_CLASS_NAMES)

\* C13: for a notehead or non-measure-lasting rest with n augmentation dots and
\* no tuple, the duration modifier is 1 + 1/2 + ... + 1/2^n = 2 - 2^(-n).
C13_DotModifier ==
    (/\ call.op = "_compute_duration_modifier"
     /\ symbol.class_name \in ModifiedClasses
     /\ symbol.tuples = <<>>) =>
        /\ ~call.raised
        /\ duration_modifier = DotLaw(symbol.ddots)
        /\ symbol.ddots = 0 => duration_modifier = <<1, 1>>
        /\ symbol.ddots = 1 => duration_modifier = <<3, 2>>
        /\ symbol.ddots = 2 => duration_modifier = <<7, 4>>

\* the modifier of a rest with two dots and no tuple was computed
C13_Witness ==
    /\ call.op = "_compute_duration_modifier"
    /\ symbol.class_name = "restQuarter"
    /\ symbol.tuples = <<>>
    /\ symbol.ddots = 2
    /\ duration_modifier = <<7, 4>>

\* the count of a tuple: its numerals read from left to right in base 10, or
\* the number of its noteheads when it has no numeral
TupleCount(t) == IF t.numerals = <<>> THEN t.noteheads ELSE interpret(t.numerals)

\* the tuple counts that have a modifier, and the modifiers
TupleTable ==
    (2 :> <<3, 2>>) @@ (3 :> <<2, 3>>) @@ (4 :> <<4, 3>>) @@ (5 :> <<4, 5>>)
        @@ (6 :> <<2, 3>>) @@ (7 :> <<8, 7>>) @@ (10 :> <<4, 5>>)

Supported(tuples) ==
    Len(tuples) = 0 \/ (Len(tuples) = 1 /\ TupleCount(tuples[1]) \in DOMAIN TupleTable)

\* C14: with exactly one tuple attached, the tuple modifier is 3/2, 2/3, 4/3,
\* 4/5, 2/3, 8/7, 4/5 for the tuple counts 2, 3, 4, 5, 6, 7, 10 (times the dot
\* modifier, when there are dots); with any other tuple count, and with more
\* than one tuple, the computation of the modifier, and of the duration of a
\* notehead or non-measure-lasting rest with modifiers enabled, fails.
C14_TupleModifier ==
    /\ (call.op = "_compute_duration_modifier" /\ symbol.tuples # <<>>) =>
          IF Supported(symbol.tuples)
          THEN /\ ~call.raised
               /\ duration_modifier = Times(TupleTable[TupleCount(symbol.tuples[1])],
                                            DotLaw(symbol.ddots))
          ELSE call.raised
    /\ (/\ call.op = "beats"
        /\ ~ignore_modifiers
        /\ symbol.class_name \in ModifiedClasses
        /\ ~Supported(symbol.tuples)) => call.raised

\* the modifier of a 10-tuple without dots was computed
C14_Witness ==
    /\ call.op = "_compute_duration_modifier"
    /\ Len(symbol.tuples) = 1
    /\ symbol.tuples[1].numerals = <<1, 0>>
    /\ symbol.ddots = 0
    /\ duration_modifier = <<4, 5>>

\* what C15 says of the base duration of a notehead with at most one stem
BaseDurationLaw ==
    IF symbol.class_name \in GRACE_NOTEHEAD_CLASS_NAMES
    THEN ~call.raised /\ beat = <<0, 1>>
    ELSE IF symbol.class_name = "noteheadFull"
    THEN /\ ~call.raised
         /\ beat = <<1, 2 ^ Len(symbol.flags_and_beams)>>
         /\ (symbol.stems = 1 /\ symbol.flags_and_beams = <<>>) => beat = <<1, 1>>
    ELSE IF symbol.flags_and_beams # <<>> THEN call.raised
    ELSE ~call.raised /\ beat = (IF symbol.stems = 1 THEN <<2, 1>> ELSE <<4, 1>>)

\* the base duration of a notehead with at most one stem was computed
BaseDurationAsked ==
    /\ call.op = "beats"
    /\ ignore_modifiers
    /\ symbol.class_name \in NOTEHEAD_CLASS_NAMES
    /\ symbol.stems <= 1

\* C15 as stated: with at most one stem, the base duration of a notehead is 0
\* for grace noteheads, (1/2)^(number of flags and beams) for full noteheads,
\* 2 with a stem and 4 without for half and whole noteheads, which fail if any
\* flag or beam is attached.
C15_BaseDurationAsStated == BaseDurationAsked => BaseDurationLaw

\* C15, amended: the same, except that under the strict policy a full notehead
\* without a stem fails.
C15_BaseDuration ==
    BaseDurationAsked =>
        IF symbol.class_name = "noteheadFull" /\ symbol.stems = 0 /\ ~strategy_permissive
        THEN call.raised
        ELSE BaseDurationLaw

\* the base duration of a whole note (no stem) was computed under the strict
\* policy
C15_Witness ==
    /\ BaseDurationAsked
    /\ ~strategy_permissive
    /\ symbol.class_name = "noteheadWhole"
    /\ symbol.stems = 0
    /\ beat = <<4, 1>>

\* the base duration of a notehead: as in C15, and for a notehead with more
\* stems the duration its flags and beams on one side imply
BaseDuration(node) ==
    LET IsAbove(c) == c
    IN  IF node.class_name \in NOTEHEADS_EMPTY
        THEN IF node.stems = 0 THEN <<4, 1>> ELSE <<2, 1>>
        ELSE IF node.stems <= 1 THEN <<1, 2 ^ Len(node.flags_and_beams)>>
        ELSE <<1, 2 ^ Len(SelectSeq(node.flags_and_beams, IsAbove))>>

\* C16: for every non-grace notehead, with one stem or more, beats(notehead)
\* with modifiers enabled is base duration * tuple modifier * dot modifier,
\* each modifier applied once.
C16_ModifiersOnce ==
    (/\ call.op = "beats"
     /\ ~call.raised
     /\ ~ignore_modifiers
     /\ symbol.class_name \in NOTEHEAD_CLASS_NAMES \ GRACE_NOTEHEAD_CLASS_NAMES) =>
        beat = Times(BaseDuration(symbol),
                     Times(IF symbol.tuples = <<>> THEN <<1, 1>>
                           ELSE TupleTable[TupleCount(symbol.tuples[1])],
                           DotLaw(symbol.ddots)))

\* -------------------------------------------- claims: the time signatures
\* the numerals among the children of the time signature
NumeralChildren == children_of_class(time_signature, NUMERALS)

\* the number a list of numerals reads as, from left to right
ReadLeftToRight(numerals) == interpret_numerals(numerals)

\* twice the vertical centre of a numeral
Centre2(m) == m.top + m.bottom

\* the time signature is fraction-like: it has at least two numerals and two
\* of them share less of their heights than the threshold (0.8 by default)
FractionLike ==
    LET threshold == IF fractional_vertical_iou_threshold = <<>>
                     THEN DEFAULT_FRACTIONAL_VERTICAL_IOU_THRESHOLD
                     ELSE fractional_vertical_iou_threshold
    IN  /\ Len(NumeralChildren) >= 2
        /\ \E i, j \in DOMAIN NumeralChildren :
               /\ i # j
               /\ Less(bounding_box_dice_coefficient(NumeralChildren[i], NumeralChildren[j]),
                       threshold)

\* the values 4 * numerator / denominator of the splits of the numerals at a
\* largest gap between two numerals consecutive in the order of the centres
SplitValues ==
    LET n == Len(NumeralChildren)
        orders == {p \in Perms(1..n) :
                      \A i, j \in 1..n :
                          i < j => Centre2(NumeralChildren[p[i]]) <= Centre2(NumeralChildren[p[j]])}
        Gap(p, i) == Centre2(NumeralChildren[p[i + 1]]) - Centre2(NumeralChildren[p[i]])
        Above(p, i) == [k \in 1..i |-> NumeralChildren[p[k]]]
        Below(p, i) == [k \in 1..(n - i) |-> NumeralChildren[p[i + k]]]
        Largest(p) == {i \in 1..(n - 1) : \A j \in 1..(n - 1) : Gap(p, i) >= Gap(p, j)}
    IN  UNION {{<<ReadLeftToRight(Above(p, i)), ReadLeftToRight(Below(p, i))>> :
                   i \in Largest(p)} : p \in orders}

\* C17: interpret_time_signature returns 4 whenever a common or cut-common
\* member is present; for a non-fraction-like signature it returns the numerals
\* read as one base-10 integer; for a fraction-like signature it returns
\* 4 * numerator / denominator, the numerator being the numerals above the
\* largest vertical gap between numerals consecutive in the order of their
\* vertical centres, the denominator those below it.
C17_TimeSignature ==
    call.op = "interpret_time_signature" =>
        IF \E i \in DOMAIN time_signature :
               time_signature[i].class_name \in {"timeSigCommon", "timeSigCutCommon"}
        THEN ~call.raised /\ measure_beats = <<4, 1>>
        ELSE IF NumeralChildren = <<>> THEN TRUE
        ELSE IF FractionLike
        THEN /\ ~call.raised
             /\ \E v \in SplitValues : measure_beats = Fraction(4 * v[1], v[2])
        ELSE /\ ~call.raised
             /\ measure_beats = Fraction(ReadLeftToRight(NumeralChildren), 1)

\* ------------------------------------------- claims: the edge operations
\* the five link lists and the vertices
links == <<vertices, inlinks, outlinks, precedence_inlinks, precedence_outlinks>>

\* no list holds an id twice
NoIdTwice ==
    \A n \in NodeIds :
        \A list \in {inlinks[n], outlinks[n], precedence_inlinks[n], precedence_outlinks[n]} :
            \A i, j \in DOMAIN list : list[i] = list[j] => i = j

\* C18: add_edge(a, b) (add_precedence_edge(a, b)) on an edge a -> b of the
\* graph recorded in both directions returns without error and leaves every
\* link list unchanged; no list ever holds the same id twice.
C18_AddExistingEdge ==
    /\ []NoIdTwice
    /\ [][\A a \in vertices, b \in vertices :
            /\ (/\ call'.op = "add_edge"
                /\ In(b, outlinks[a])
                /\ In(a, inlinks[b])
                /\ AddEdgeCall(a, b)) => (~call'.raised /\ UNCHANGED links)
            /\ (/\ call'.op = "add_precedence_edge"
                /\ In(b, precedence_outlinks[a])
                /\ In(a, precedence_inlinks[b])
                /\ AddPrecedenceEdgeCall(a, b)) => (~call'.raised /\ UNCHANGED links)]_vars

\* add_precedence_edge returned on a graph whose lists hold the edge 1 -> 2
\* in both directions
C18_Witness ==
    /\ call = [op |-> "add_precedence_edge", raised |-> FALSE]
    /\ precedence_outlinks = [NoLinks EXCEPT ![1] = <<2>>]
    /\ precedence_inlinks = [NoLinks EXCEPT ![2] = <<1>>]

\* exactly one direction of the edge a -> b is recorded
OneDirection(a, b) == In(b, outlinks[a]) # In(a, inlinks[b])

OnePrecedenceDirection(a, b) == In(b, precedence_outlinks[a]) # In(a, precedence_inlinks[b])

\* the calls C19 is about, on (a, b), with the suppress_not_in_list_error
\* argument of the removals in the given set
FailsOnOneDirection(suppress_values) ==
    \A a \in NodeIds, b \in NodeIds :
        /\ (/\ OneDirection(a, b)
            /\ \/ call'.op = "has_edge" /\ HasEdgeCall(a, b)
               \/ call'.op = "add_edge" /\ AddEdgeCall(a, b)
               \/ /\ call'.op = "remove_edge"
                  /\ \E suppress \in suppress_values : RemoveEdgeCall(a, b, suppress))
           => call'.raised
        /\ (/\ OnePrecedenceDirection(a, b)
            /\ \/ call'.op = "add_precedence_edge" /\ AddPrecedenceEdgeCall(a, b)
               \/ /\ call'.op = "remove_precedence_edge"
                  /\ \E suppress \in suppress_values :
                         RemovePrecedenceEdgeCall(a, b, suppress))
           => call'.raised

C20_RemoveVertex ==
    [][\A v \in NodeIds :
          (call'.op = "remove_vertex" /\ v \in vertices /\ RemoveVertexCall(v)) =>
              /\ ~call'.raised
              /\ vertices' = vertices \ {v}
              /\ \A n \in vertices' :
                     /\ ~In(v, inlinks'[n])
                     /\ ~In(v, outlinks'[n])
                     /\ LET Other(m) == m # v
                        IN  /\ inlinks'[n] = SelectSeq(inlinks[n], Other)
                            /\ outlinks'[n] = SelectSeq(outlinks[n], Other)]_vars

\* a vertex was removed and an edge between the two others is still recorded
C20_Witness ==
    /\ call = [op |-> "remove_vertex", raised |-> FALSE]
    /\ vertices = NodeIds \ {3}
    /\ outlinks[1] = <<2>>
    /\ inlinks[2] = <<1>>

\* ------------------------------------------------ claims: the closures
\* the nodes other than n reached from n by one or more steps along `lists`
\* onto nodes whose class is in F
RECURSIVE Closure(_, _, _)
Closure(S, F, lists) ==
    LET T == S \cup {m \in vertices : class_name[m] \in F /\ \E x \in S : In(m, lists[x])}
    IN  IF T = S THEN S ELSE Closure(T, F, lists)

ReachedFrom(n, F, lists) ==
    Closure({m \in vertices : class_name[m] \in F /\ In(m, lists[n])}, F, lists) \ {n}

\* C21: descendants(n, F) (ancestors(n, F)) returns exactly the nodes other
\* than n reachable from n by one or more outlink (inlink) steps onto nodes
\* whose class is in F, each of them once.
C21_Closures ==
    call.op \in {"descendants", "ancestors"} =>
        /\ returned # <<>>
        /\ Ids(returned[1]) =
               ReachedFrom(argument.node, argument.class_filter,
                           IF call.op = "descendants" THEN outlinks ELSE inlinks)
        /\ \A i, j \in DOMAIN returned[1] : returned[1][i] = returned[1][j] => i = j

\* ---------------------------------------------- claims: the ties, again
\* the notes with a tie, the tie process_ties examines at such a note (the
\* rightmost of its ties) and the number of noteheads attached to that tie
TiedNotes == {k \in DOMAIN onsets : children(GraphState, k, {"tie"}) # <<>>}

ExaminedTie(k) ==
    LET tie_list == children(GraphState, k, {"tie"})
    IN  IF Len(tie_list) > 1 THEN rightmost_tie(tie_list) ELSE tie_list[1]

NoteheadsAt(tie) ==
    Cardinality({n \in Ids(inlinks[tie]) : class_name[n] \in TieNoteClasses})

\* C22: process_ties fails when a tie it examines has no attached notehead or
\* more than two; it skips a tie with exactly one attached notehead: the
\* duration and the onset of that note stay as they were, and when every tie
\* examined is such a tie the two tables are returned as they were given.
C22_TieArity ==
    ties_pc # "start" =>
        /\ (\E k \in TiedNotes : NoteheadsAt(ExaminedTie(k)) \notin {1, 2})
               => ties_pc = "raised"
        /\ ties_pc = "returned" =>
               \A k \in TiedNotes :
                   (NoteheadsAt(ExaminedTie(k)) = 1 /\ k \in DOMAIN new_onsets) =>
                       /\ new_onsets[k] = onsets[k]
                       /\ new_durations[k] = durations[k]
        /\ (\A k \in TiedNotes : NoteheadsAt(ExaminedTie(k)) = 1) =>
               /\ ties_pc = "returned"
               /\ new_onsets = onsets
               /\ new_durations = durations

\* process_ties returned after it skipped a tie with one notehead and merged
\* the two notes of another tie
C22_Witness ==
    /\ ties_pc = "returned"
    /\ \E k \in TiedNotes : NoteheadsAt(ExaminedTie(k)) = 1
    /\ DOMAIN new_onsets # DOMAIN onsets

\* ------------------------------- claims: the edge operations, both lists
\* C26: every call of add_edge, remove_edge, add_precedence_edge or
\* remove_precedence_edge on (a, b), whether it returns or raises, has changed
\* the out-list of a and the in-list of b together or neither of them; a call
\* that raises leaves the graph unchanged.
C26_BothOrNeither ==
    [][\A a \in NodeIds, b \in NodeIds :
         /\ (/\ call'.op \in {"add_edge", "remove_edge"}
             /\ \/ AddEdgeCall(a, b)
                \/ \E suppress \in BOOLEAN : RemoveEdgeCall(a, b, suppress))
            => /\ (outlinks'[a] # outlinks[a]) = (inlinks'[b] # inlinks[b])
               /\ call'.raised => UNCHANGED links
         /\ (/\ call'.op \in {"add_precedence_edge", "remove_precedence_edge"}
             /\ \/ AddPrecedenceEdgeCall(a, b)
                \/ \E suppress \in BOOLEAN : RemovePrecedenceEdgeCall(a, b, suppress))
            => /\ (precedence_outlinks'[a] # precedence_outlinks[a])
                      = (precedence_inlinks'[b] # precedence_inlinks[b])
               /\ call'.raised => UNCHANGED links]_vars

\* ------------------------------------ claims: the modifiers, when ignored
\* the symbols that differ from the given one in their dots and tuples only
SameButModifiers(node) ==
    {other \in DurationSymbols :
        /\ other.class_name = node.class_name
        /\ other.stems = node.stems
        /\ other.flags_and_beams = node.flags_and_beams}

\* C28: with ignore_modifiers set, beats(node) of a notehead or a rest, a
\* notehead with two or more stems included, is the same whatever dots and
\* tuples are attached to it: it ends as it does for every symbol that
\* differs in its dots and tuples only, and with the same value.
C28_IgnoreModifiers ==
    (/\ call.op = "beats"
     /\ ignore_modifiers
     /\ symbol.class_name \in NOTEHEAD_CLASS_NAMES \cup REST_CLASS_NAMES)
        => \A other \in SameButModifiers(symbol) :
              /\ beats(other, TRUE).raised = call.raised
              /\ ~call.raised => beats(other, TRUE).value = beat

\* ------------------------------------ claims: the onsets, written back
\* C27: when onsets() returns, for every id of the returned table, the source
\* nodes included, the symbol carries data['onset_beats'] equal to the value
\* of the table for that id.
C27_OnsetWrittenBack ==
    pc = "returned" => \A k \in DOMAIN onsets : onset_beats[k] = onsets[k]

\* --------------------------------------- claims: the onsets, the delays
\* the node at the start of the queue has no onset and a predecessor without
\* onset
FoundUnresolved(q) ==
    /\ pc = "loop"
    /\ Len(queue) - qstart > 0
    /\ q = queue[qstart + 1]
    /\ p_onset[q] = None
    /\ \E i \in DOMAIN precedence_inlinks[q] : p_onset[precedence_inlinks[q][i]] = None

\* C25: in onsets(), a node found with an unresolved predecessor is sent
\* down the queue at most once: when it is found so a second time the walk
\* halts. The queue therefore never holds more than three entries for each
\* node (its first entry and two delays), which bounds the walk on every
\* finite precedence graph, one with a cycle reachable from a source node
\* included.
C25_DelayedOnce ==
    /\ [][\A q \in vertices :
            (FoundUnresolved(q) /\ ObjId(q) \in delayed_prec_nodes)
                => pc' = "returned"]_vars
    /\ [](Len(queue) <= 3 * Cardinality(vertices))

\* ------------------------------------------ claims: the tied noteheads
\* the ties of the notehead that join exactly two noteheads, the left one
\* being another notehead of the same staff
InheritingTies(notehead) ==
    {i \in DOMAIN notehead.ties :
        /\ Len(notehead.ties[i]) = 2
        /\ left_tied_notehead(notehead.ties[i]) # notehead.id
        /\ left_tied_notehead(notehead.ties[i]) \in DOMAIN staff_queue}

pitchState ==
    <<base_pitch, base_pitch_step, base_pitch_octave, current_clef,
      current_delta_steps, current_clef_delta_shift, key_accidentals,
      inline_accidentals>>

\* C30: in a staff sweep, a notehead attached to a tie that joins exactly two
\* noteheads, the left one being another notehead of the same staff, gets
\* the pitch code and the pitch name recorded for the left notehead, whatever
\* clef, key and inline accidentals are in force, and the pitch state stays
\* as it is. (Taken for the noteheads that have one such tie and whose other
\* ties join them to a notehead further right or to no notehead at all.)
C30_TiedPitch ==
    [][(/\ call'.op = "process_notehead"
        /\ ProcessNotehead
        /\ Cardinality(InheritingTies(staff_queue[sweep_pos])) = 1
        /\ \A i \in DOMAIN staff_queue[sweep_pos].ties :
               \/ i \in InheritingTies(staff_queue[sweep_pos])
               \/ staff_queue[sweep_pos].ties[i] = <<sweep_pos>>
               \/ /\ Len(staff_queue[sweep_pos].ties[i]) = 2
                  /\ left_tied_notehead(staff_queue[sweep_pos].ties[i]) = sweep_pos)
          => LET notehead == staff_queue[sweep_pos]
                 left == left_tied_notehead(
                             notehead.ties[CHOOSE i \in InheritingTies(notehead) : TRUE])
             IN  /\ ~call'.raised
                 /\ pitches'[notehead.id] = pitches[left]
                 /\ pitch_names'[notehead.id] = pitch_names[left]
                 /\ UNCHANGED pitchState]_vars

\* ------------------------------------------- claims: the clef and the key
\* the key map set_key(s, f) makes under the clef of the given state
KeyMap(ps, c) == set_key(ps, c[1], c[2]).key_accidentals

\* init_base_pitch(Y) and then init_base_pitch(X) on the present state, whose
\* clef is X
ThereAndBack(Y) ==
    init_base_pitch(init_base_pitch(PitchState, Y, 0), current_clef, 0)

\* C29: for the clefs X and Y among G, C and F and every key signature of s
\* sharps and f flats, a change of clef from X to Y on the key map that
\* set_key(s, f) made under X gives the key map that set_key(s, f) makes
\* under Y (so the two orders agree); the first clef of a staff (no clef in
\* force) leaves the key map and the inline map as they are; and a change
\* from X to Y and back to X restores both maps.
C29_ClefKeyCommute ==
    /\ [][(call'.op = "init_base_pitch" /\ current_clef' \in ClefClasses) =>
                /\ current_clef \in ClefClasses =>
                      \A c \in KeyCounts :
                          key_accidentals = KeyMap(PitchState, c)
                              => key_accidentals' = KeyMap(PitchState', c)
                /\ current_clef = NoClef =>
                      /\ key_accidentals' = key_accidentals
                      /\ inline_accidentals' = inline_accidentals]_vars
    /\ [](current_clef \in ClefClasses =>
            \A Y \in ClefClasses :
                /\ ~ThereAndBack(Y).raised
                /\ ThereAndBack(Y).key_accidentals = key_accidentals
                /\ ThereAndBack(Y).inline_accidentals = inline_accidentals)

\* the clef was changed to an F clef on a key of two sharps, with an inline
\* accidental that was set under a G clef
C29_Witness ==
    /\ call = [op |-> "init_base_pitch", raised |-> FALSE]
    /\ current_clef = "fClef"
    /\ key_accidentals = (2 :> "sharp" @@ 6 :> "sharp")
    /\ DOMAIN inline_accidentals = {12}

\* ------------------------------------------- claims: the staffline delta
\* the 0-based rank, from the top, of the object of the given id among the
\* staffline and staffspace children of the staff
RankFromTop(staff, id) ==
    LET Middle2(o) == o.top + o.bottom
        object == staff.children[CHOOSE i \in DOMAIN staff.children :
                                     staff.children[i].id = id]
    IN  Cardinality({i \in DOMAIN staff.children :
                        Middle2(staff.children[i]) < Middle2(object)})

\* C23: staffline_delta(notehead) is 5 minus the 0-based rank, from the top,
\* of the single staffline or staffspace of the notehead among those of its
\* staff (0 on the middle line of a staff of 11); with no staffline or
\* staffspace and c >= 1 leger lines it is (2c - 1) + 5 + e with e 0 or 1,
\* positive when the top of the notehead is above the top of the staff and
\* negative otherwise; it fails when the notehead has neither, and when it
\* has more than one staffline or staffspace.
C23_StafflineDelta ==
    call.op = "staffline_delta" =>
        LET notehead == argument.notehead
            staff == argument.staff
            count == Len(notehead.staffline_objects)
            c == Len(notehead.lls)
        IN  /\ (/\ notehead.has_staff
                /\ count = 1
                /\ \E i \in DOMAIN staff.children :
                       staff.children[i].id = notehead.staffline_objects[1])
                  => /\ returned =
                          <<5 - RankFromTop(staff, notehead.staffline_objects[1])>>
                     /\ (Len(staff.children) = 11 /\ notehead.staffline_objects[1] = 6)
                            => returned = <<0>>
            /\ (notehead.has_staff /\ count = 0 /\ c >= 1)
                  => \E e \in {0, 1} :
                         returned = <<IF notehead.top < staff.top
                                      THEN (2 * c - 1) + 5 + e
                                      ELSE -1 * ((2 * c - 1) + 5 + e)>>
            /\ (count = 0 /\ c = 0) => call.raised
            /\ count > 1 => call.raised

\* the delta of a notehead on the third object from the top of a staff that
\* lists its eleven objects bottom to top
C23_Witness ==
    /\ call = [op |-> "staffline_delta", raised |-> FALSE]
    /\ argument.notehead.staffline_objects = <<3>>
    /\ Len(argument.staff.children) = 11
    /\ argument.staff.children[1].id = 11
    /\ returned = <<3>>

\* ------------------------------------------ claims: the onsets, the systems
\* C24: when the grouping gives more than one system, the staffs are to be
\* chained and the systems do not all have the same number of staffs,
\* onsets() fails and returns no table of onsets.
C24_UnequalSystems ==
    (/\ pc # "start"
     /\ argument # <<>>
     /\ Len(argument.system_lengths) > 1
     /\ argument.link_sinks_to_sources
     /\ \E i, j \in DOMAIN argument.system_lengths :
            argument.system_lengths[i] # argument.system_lengths[j])
        => (pc = "raised" /\ onsets = <<>>)

\* onsets() failed on three systems of one, two and one staffs
C24_Witness ==
    /\ pc = "raised"
    /\ argument = [system_lengths |-> <<1, 2, 1>>, link_sinks_to_sources |-> TRUE]

\* ------------------------------------------- claims: the closures end
\* C38: ancestors(n) and descendants(n) come to an end on every graph, a
\* graph with a cycle of attachment edges through n or through a node
\* reached from n included: each call ends with a list or with an exception.
C38_Terminates ==
    call.op \in {"ancestors", "descendants"} => (call.raised \/ returned # <<>>)

\* -------------------------------------- claims: the names of the pitches
\* the semitones of a letter above C, and those of an accidental glyph
LetterSemitone(letter) ==
    CASE letter = "C" -> 0
      [] letter = "D" -> 2
      [] letter = "E" -> 4
      [] letter = "F" -> 5
      [] letter = "G" -> 7
      [] letter = "A" -> 9
      [] letter = "B" -> 11

GlyphOffset(glyph) ==
    CASE glyph = "bb" -> -2
      [] glyph = "b" -> -1
      [] glyph = "" -> 0
      [] glyph = "#" -> 1
      [] glyph = "x" -> 2

\* the MIDI code a name <<letter, glyph, octave>> denotes
NamedPitch(name) == 12 * (name[3] + 1) + LetterSemitone(name[1]) + GlyphOffset(name[2])

\* C31: whatever the clef, the shift, the delta and the accidental in force,
\* pitch_name(delta) returns a letter, a glyph and an octave that denote the
\* pitch pitch(delta): 12 * (octave + 1) + semitone of the letter + offset of
\* the glyph = pitch(delta), the glyph being that of the accidental in force.
C31_NameDenotesPitch ==
    call.op = "pitch" =>
        LET result == pitch_name(PitchState, pitch_delta)
        IN  /\ ~result.raised
            /\ GlyphOffset(result.name[2])
                   = accidental(PitchState, pitch_delta + current_clef_delta_shift)
            /\ NamedPitch(result.name) = pitch_value

\* C39: with no inline accidental, whatever the clef, the shift and the key,
\* seven steps up is one octave up: pitch(delta + 7) = pitch(delta) + 12, and
\* pitch_name(delta + 7) is the letter and glyph of pitch_name(delta) with
\* the octave one higher.
C39_OctavePeriod ==
    (call.op = "pitch" /\ inline_accidentals = <<>>) =>
        LET low == pitch_name(PitchState, pitch_delta)
            high == pitch_name(PitchState, pitch_delta + 7)
        IN  /\ pitch(PitchState, pitch_delta + 7) = pitch_value + 12
            /\ ~low.raised
            /\ ~high.raised
            /\ high.name = <<low.name[1], low.name[2], low.name[3] + 1>>

\* ------------------------------------ claims: the ties, nothing is lost
\* the two-note ties of which the notehead n is the left (i = 1) or the right
\* (i = 2) end
TwoNoteTies(n, i) ==
    {t \in vertices : /\ class_name[t] = "tie"
                      /\ NoteheadsAt(t) = 2
                      /\ get_tie_notes(GraphState, t).notes[i] = n}

AtMostOneTieEachSide ==
    \A n \in DOMAIN onsets : \A i \in 1..2 : Cardinality(TwoNoteTies(n, i)) <= 1

\* C37: when every notehead is the right end of at most one two-note tie and
\* the left end of at most one, the tables process_ties returns have the same
\* keys, and the returned durations sum to the durations given for the ids of
\* the onset table given: no duration is lost and none is counted twice.
C37_DurationsKept ==
    (ties_pc = "returned" /\ AtMostOneTieEachSide) =>
        /\ DOMAIN new_durations = DOMAIN new_onsets
        /\ SumOver(new_durations, DOMAIN new_durations)
               = SumOver(durations, DOMAIN onsets)

\* ------------------------------- claims: the precedence relation, bridged
\* the nodes reached from u by one or more steps along the lists `outs`
PrecedenceReach(outs, u) ==
    Closure({m \in vertices : In(m, outs[u])}, GraphClasses, outs)

PrecedenceAcyclic(outs) == \A n \in vertices : n \notin PrecedenceReach(outs, n)

\* C36: when the precedence relation is acyclic and reciprocal,
\* remove_from_precedence(X) leaves it acyclic, a node other than X is
\* reached from another node other than X afterwards exactly if it was
\* before, and every precedence edge between two nodes other than X is kept.
C36_BridgeKeepsOrder ==
    [][\A x \in NodeIds :
          (/\ call'.op = "remove_from_precedence"
           /\ PrecedenceAcyclic(precedence_outlinks)
           /\ Reciprocal(vertices, precedence_inlinks, precedence_outlinks)
           /\ RemoveFromPrecedenceCall(x))
          => /\ PrecedenceAcyclic(precedence_outlinks')
             /\ \A u \in vertices \ {x}, v \in vertices \ {x} :
                    /\ v \in PrecedenceReach(precedence_outlinks', u)
                           <=> v \in PrecedenceReach(precedence_outlinks, u)
                    /\ In(v, precedence_outlinks[u]) => In(v, precedence_outlinks'[u])
                    /\ In(u, precedence_inlinks[v]) => In(u, precedence_inlinks'[v])]_vars

\* the middle node of a chain of three was taken out: the first node is
\* linked to the last, and the middle node has no precedence edge
C36_Witness ==
    /\ call = [op |-> "remove_from_precedence", raised |-> FALSE]
    /\ precedence_outlinks = [n \in NodeIds |-> IF n = 1 THEN <<3>> ELSE <<>>]
    /\ precedence_inlinks = [n \in NodeIds |-> IF n = 3 THEN <<1>> ELSE <<>>]

\* ------------------------------------ claims: the notehead and the line
\* C40: for integer boxes with top <= bottom, of the notehead and of the
\* line, resolve_notehead_wrt_staffline returns -1, 0 or +1 through one of
\* its named cases, never through its last branch, and staffline_delta never
\* fails with its 'Strange notehead vs. leger line' error.
C40_NoStrangeSituation ==
    /\ call.op = "resolve_notehead_wrt_staffline" =>
           /\ returned[1].case # "strange"
           /\ returned[1].position \in {-1, 0, 1}
    /\ (call.op = "staffline_delta" /\ argument.notehead.lls # <<>>
            /\ argument.notehead.has_staff /\ argument.notehead.staffline_objects = <<>>)
           => on_leger_line(argument.notehead, closest_ll(argument.notehead),
                            argument.notehead.top < argument.staff.top) # "strange"

\* a notehead whose last row is the first row of the line, the line reaching
\* further down: the notehead is above the line
C40_Witness ==
    /\ call.op = "resolve_notehead_wrt_staffline"
    /\ argument.notehead.top < argument.ll.top
    /\ argument.notehead.bottom = argument.ll.top
    /\ argument.ll.top < argument.ll.bottom
    /\ returned = <<[position |-> 1, case |-> "notehead on top"]>>

\* ---------------------------------------- claims: one staff after another
\* the state of a PitchInferenceEngineState at the start of a staff
DefaultPitchState ==
    [base_pitch |-> 71, base_pitch_step |-> 6, base_pitch_octave |-> 4,
     current_clef |-> NoClef, current_delta_steps |-> <<0, 1, 2, 2, 1, 2, 2, 2>>,
     current_clef_delta_shift |-> 0, key_accidentals |-> <<>>,
     inline_accidentals |-> <<>>, raised |-> FALSE]

\* what process_staff does with the symbol q of its queue
process_symbol(es, q) ==
    IF q.class_name \in ClefClasses THEN process_clef(es, q)
    ELSE IF q.class_name = "keySignature" THEN process_key_signature(es, q)
    ELSE IF q.class_name = "measureSeparator" THEN process_measure_separator(es, q)
    ELSE process_notehead(es, q)

RECURSIVE SweepFrom(_, _)
SweepFrom(es, symbols) ==
    IF symbols = <<>> \/ es.raised THEN es
    ELSE SweepFrom(process_symbol(es, Head(symbols)), Tail(symbols))

\* process_staff on the staff as the only staff of a new engine
SweptAlone(symbols) ==
    SweepFrom([ps |-> DefaultPitchState, pitches |-> <<>>, pitch_names |-> <<>>,
               raised |-> FALSE], symbols)

StaffIds == {staff_queue[i].id : i \in DOMAIN staff_queue}

NoTieToAnotherStaff ==
    \A i \in DOMAIN staff_queue : \A t \in DOMAIN staff_queue[i].ties :
        Ids(staff_queue[i].ties[t]) \subseteq StaffIds

\* C32: at the start of the sweep of every staff the pitch state is the
\* default one (base pitch 71, step B, octave 4, shift 0, no clef, no key, no
\* inline accidental), so a staff whose noteheads have no tie to another
\* staff gets the pitches and names it gets as the only staff, whatever
\* staves were swept before it.
C32_StaffIndependence ==
    /\ call.op = "process_staff" => PitchState = DefaultPitchState
    /\ (sweep_pc \in {"returned", "raised"} /\ NoTieToAnotherStaff) =>
           LET alone == SweptAlone(staff_queue)
           IN  /\ alone.raised <=> sweep_pc = "raised"
               /\ \A id \in StaffIds \cap DOMAIN alone.pitches :
                      /\ id \in DOMAIN pitches
                      /\ pitches[id] = alone.pitches[id]
                      /\ pitch_names[id] = alone.pitch_names[id]
               /\ StaffIds \cap DOMAIN pitches = DOMAIN alone.pitches

\* the sweep of the second staff begins, after a first staff with a notehead,
\* from the default pitch state
C32_Witness ==
    /\ call.op = "process_staff"
    /\ argument = 2
    /\ DOMAIN pitches # {}
    /\ base_pitch = 71
    /\ key_accidentals = <<>>

\* --------------------------------------- claims: the contained nodes
\* the ids in the four lists of the node n of a graph value
ListedBy(st, n) ==
    Ids(st.inlinks[n]) \cup Ids(st.outlinks[n]) \cup Ids(st.precedence_inlinks[n])
        \cup Ids(st.precedence_outlinks[n])

\* C35: remove_contained_nodes leaves the lists of the nodes it is given as
\* they are; in the nodes it returns every attachment edge and every
\* precedence edge between two nodes that are both kept is still there, and
\* no node that is kept lists a removed id in any of its four lists.
C35_ContainedRemoved ==
    [][call'.op = "remove_contained_nodes" =>
          /\ UNCHANGED <<inlinks, outlinks, precedence_inlinks, precedence_outlinks>>
          /\ returned' # <<>> =>
                LET out == returned'[1]
                    removed == Ids(argument')
                IN  /\ out.vertices = vertices \ removed
                    /\ \A a \in out.vertices, b \in out.vertices :
                           /\ In(b, outlinks[a]) => In(b, out.outlinks[a])
                           /\ In(a, inlinks[b]) => In(a, out.inlinks[b])
                           /\ In(b, precedence_outlinks[a])
                                  => In(b, out.precedence_outlinks[a])
                           /\ In(a, precedence_inlinks[b])
                                  => In(a, out.precedence_inlinks[b])
                    /\ \A n \in out.vertices : ListedBy(out, n) \cap removed = {}]_vars

\* node 2, between 1 and 3 in the precedence relation and attached to 3, was
\* removed: 1 is linked to 3 and no list has 2 in it
C35_Witness ==
    /\ call = [op |-> "remove_contained_nodes", raised |-> FALSE]
    /\ argument = <<2>>
    /\ precedence_outlinks[1] = <<2>>
    /\ precedence_outlinks[2] = <<3>>
    /\ outlinks[2] = <<3>>
    /\ returned[1].vertices = NodeIds \ {2}
    /\ returned[1].precedence_outlinks[1] = <<3>>
    /\ returned[1].inlinks[3] = <<>>

\* C34: group_staffs_into_systems returns one system per maximal candidate
\* group.  With candidate groups, the groups that yield a system are exactly
\* those whose staff set is not a proper subset of the staff set of another
\* candidate and that have no candidate with the same staff set to their
\* left, and the systems are the staff lists of these groups from left to
\* right; without candidate groups the systems are the single staffs that
\* have a notehead or a rest, and no empty staff is in any system.
ProperlyNested(input, g) ==
    \E h \in staff_groups(input) :
        /\ staffs_per_group(input, g) \subseteq staffs_per_group(input, h)
        /\ staffs_per_group(input, g) # staffs_per_group(input, h)

LeftmostOfItsStaffSet(input, g) ==
    \A h \in staff_groups(input) :
        staffs_per_group(input, h) = staffs_per_group(input, g) => g <= h

MaximalGroups(input) ==
    {g \in staff_groups(input) :
        ~ProperlyNested(input, g) /\ LeftmostOfItsStaffSet(input, g)}

C34_OneSystemPerMaximalGroup ==
    call.op = "group_staffs_into_systems" =>
        LET systems == returned[1]
            outer == outer_staff_groups_of(argument)
        IN  IF staff_groups(argument) # {}
            THEN /\ {outer[k] : k \in DOMAIN outer} = MaximalGroups(argument)
                 /\ \A k \in DOMAIN outer : \A j \in DOMAIN outer :
                        k < j => outer[k] < outer[j]
                 /\ Len(systems) = Cardinality(MaximalGroups(argument))
                 /\ \A k \in DOMAIN systems :
                        systems[k] = StaffList(staffs_per_group(argument, outer[k]))
            ELSE /\ Len(systems) = Cardinality(argument.noteheads)
                 /\ \A staff \in SystemStaffs :
                        (\E k \in DOMAIN systems : systems[k] = <<staff>>)
                            <=> staff \in argument.noteheads
                 /\ \A k \in DOMAIN systems : Len(systems[k]) = 1

\* two candidate groups with the same staffs nested in a third one, and a
\* pair of candidates with the same staffs that no other group holds
C34_Witness ==
    /\ call.op = "group_staffs_into_systems"
    /\ Len(argument.groups) = 3
    /\ staff_groups(argument) = {1, 2, 3}
    /\ argument.groups[1].inlinks = argument.groups[2].inlinks
    /\ ProperlyNested(argument, 1)
    /\ Len(returned[1]) = 1
    /\ returned[1][1] = StaffList(SystemStaffs)

\* C33: with more than one system, all of the same number of staffs, and
\* chaining enabled, for every two staffs consecutive in a chain every
\* precedence node without outlinks on the earlier staff has every precedence
\* node without inlinks on the later staff among its outlinks after the
\* linking and is among the inlinks of that node, and the source nodes
\* returned are the nodes that have no inlinks after the linking.
\* The staffs s1, s2 are consecutive in a chain ordered by top: both are in
\* the chain and no staff of the chain lies between them (a staff that is in
\* the chain twice is consecutive to itself).
ConsecutiveInChain(staff_chain, s1, s2) ==
    /\ \E i \in DOMAIN staff_chain : \E j \in DOMAIN staff_chain :
          i # j /\ staff_chain[i] = s1 /\ staff_chain[j] = s2
    /\ s1 <= s2
    /\ \A i \in DOMAIN staff_chain : ~(s1 < staff_chain[i] /\ staff_chain[i] < s2)

ChainingCase ==
    /\ call.op = "_infer_precedence_from_annotations"
    /\ ~call.raised
    /\ Len(argument.systems) > 1
    /\ \A k \in DOMAIN argument.systems :
          Len(argument.systems[k]) = Len(argument.systems[1])
    /\ argument.link_sinks_to_sources

C33_SinksLinkedToSources ==
    ChainingCase =>
        /\ \A i \in DOMAIN argument.systems[1] :
             \A s1 \in ChainStaffs : \A s2 \in ChainStaffs :
               ConsecutiveInChain([k \in DOMAIN argument.systems |->
                                      argument.systems[k][i]], s1, s2) =>
                 \A sink \in ChainNodes : \A source \in ChainNodes :
                    (/\ argument.outlinks[sink] = <<>>
                     /\ argument.staff[sink] = s1
                     /\ argument.inlinks[source] = <<>>
                     /\ argument.staff[source] = s2)
                    => /\ source \in Ids(returned[1].outlinks[sink])
                       /\ sink \in Ids(returned[1].inlinks[source])
        /\ Ids(returned[1].source_nodes) =
               {n \in ChainNodes : returned[1].inlinks[n] = <<>>}

\* two systems of two staffs, the second listing its staffs from the bottom
\* up; a node that ends the upper staff of a chain is linked to a node that
\* begins the lower one, which is no source node any more
C33_Witness ==
    /\ ChainingCase
    /\ Len(argument.systems) = 2
    /\ Len(argument.systems[1]) = 2
    /\ argument.systems[2][1] < argument.systems[1][1]
    /\ \E sink \in ChainNodes : \E source \in ChainNodes :
          /\ sink # source
          /\ argument.outlinks[sink] = <<>>
          /\ argument.inlinks[source] = <<>>
          /\ argument.staff[sink] = argument.systems[2][1]
          /\ argument.staff[source] = argument.systems[1][1]
          /\ source \in Ids(returned[1].outlinks[sink])
          /\ source \notin Ids(returned[1].source_nodes)

====
